---- MODULE Spec2Model ----
(***************************************************************************)
(* Closed-loop position correction of the FEH robot (src/main.cpp):        *)
(* RPS_correct_heading, RPS_check_x, RPS_check_y and the timed pulse       *)
(* move_forward_seconds they build on.                                     *)
(*                                                                         *)
(* Units.  The program computes in float; the model is fixed point:        *)
(*   angles       tenths of a degree   (360 degrees = 3600)                *)
(*   coordinates  tenths of an inch    (0.1 inch    = 1)                   *)
(*   motor power  tenths of a percent  (2.4 percent = 24)                  *)
(* The oracle's "cannot localize" reading (-1) is -10 in these units.      *)
(* abs() is the floating-point absolute value that line 20 includes        *)
(* <cmath> for.                                                            *)
(***************************************************************************)
EXTENDS Integers, Sequences, FiniteSets, TLC

(***************************************************************************)
(* Program constants, in the units above.                                  *)
(***************************************************************************)
BACKWARDS_CALIBRATOR == 24
RPS_TURN_PULSE_PERCENT == 200
RPS_TURN_THRESHOLD == 5
RPS_TRANSLATIONAL_PULSE_PERCENT == 200
RPS_TRANSLATIONAL_THRESHOLD == 1
COUNT_PER_INCH == 40489        \* line 32, thousandths of a count per inch
ROBOT_WIDTH == 795             \* line 24, hundredths of an inch
PI == 31416                    \* line 25, ten-thousandths
HalfTurn == 1800
FullTurn == 3600
Deg90 == 900
Deg270 == 2700

(***************************************************************************)
(* Bounds of the model.                                                    *)
(***************************************************************************)
\* The counter of motor commands per call saturates here.
MaxCount == 2
\* Plant headings are taken every 0.1 degree within NearBand of a cardinal
\* heading and every GridStep elsewhere.
NearBand == 12
GridStep == 10

(***************************************************************************)
(* Inputs.                                                                 *)
(***************************************************************************)
\* Readings the oracle may return for the heading on any single read.
HeadingReadings == {-10, 0, 3, 6, 1800, 3594}
\* Target headings the callers pass (0, 90, 135, 180, 270 degrees).
Targets == {0, 900, 1350, 1800, 2700}
\* Readings the oracle may return for X or Y on any single read.
AxisReadings == {-10, 0, 98, 99, 102}
\* Target coordinates the callers pass.
AxisTargets == {100, 101}

VARIABLES
    pc,           \* position in the running routine
    caller,       \* who invoked RPS_correct_heading: "main", "x" or "y"
    heading,      \* RPS_correct_heading: parameter heading
    difference,   \* RPS_correct_heading: local difference
    direction,    \* RPS_correct_heading: local direction
    axis,         \* "x" in RPS_check_x, "y" in RPS_check_y
    coord,        \* RPS_check_x / RPS_check_y: parameter x_coord / y_coord
    orientation,  \* RPS_check_x / RPS_check_y: local orientation
    bin,          \* RPS_check_x / RPS_check_y: branch taken at lines 776 / 839
    power,        \* RPS_check_x / RPS_check_y: local power
    right_motor,  \* commanded percent of right_motor (0: stopped)
    left_motor,   \* commanded percent of left_motor (0: stopped)
    status,       \* text last passed to write_status in this top-level call ("": none)
    plant,        \* physical heading of the robot (SpecPlant, SpecAxis)
    position,     \* physical coordinate of the robot on the axis under correction (SpecAxis)
    sample,       \* history: the reading of the latest loop-guard read
    same,         \* history: every later read of this iteration equalled sample
    allNeg,       \* history: every heading read of this RPS_correct_heading call was negative
    nSet,         \* history: SetPercent pairs issued in this top-level call (saturating)
    nCorrect,     \* history: RPS_correct_heading invocations by this RPS_check call
    trace,        \* history: hardware events of the current heading-loop iteration
    ended,        \* history: how the routine at its return point ended
    snapDone,     \* history: heading with which RPS_correct_heading returned to this RPS_check call (-1: not yet)
    nAx,          \* history: translational SetPercent pairs issued in this RPS_check call (saturating)
    badRead,      \* history: a negative reading entered the choice of this iteration's direction or sign
    snapEnded,    \* history: how the RPS_correct_heading of this RPS_check call ended ("": not yet)
    move,         \* dead-reckoning routine running ("": none)
    percent,      \* dead-reckoning routines: parameter percent
    expectedCounts, \* dead-reckoning routines: local expectedCounts, in thousandths of a count
    left_encoder, \* counts of left_encoder
    right_encoder, \* counts of right_encoder
    polled,       \* the encoder read already made by the poll in progress (<<>>: none)
    requested,    \* history: the percent argument of the running move
    average2,     \* history: the sum of the two counts of the latest poll (twice their average)
    mtrace,       \* history: encoder and motor commands of the running move, with its first poll
    stage,        \* SpecTrip: 0 no pair of moves begun, 1 first move called, 2 second move called
    before2,      \* SpecTrip: the sum of the two counts before the first move of the pair
    tripArgs,     \* SpecTrip: <<percent, inches>> of the first move of the pair
    step,         \* SpecStep: the turn every pulse of this call produces
    nIter,        \* SpecStep, SpecStuck: pulses issued in this call (saturating at MaxIter)
    mainPc,       \* position in main ("course": inside run_course)
    lightOn,      \* read_start_light: local lightOn
    lightRet,     \* the value read_start_light returned (-1: it has not returned)
    cdsLow,       \* history: a reading below 0.5 was seen by the test of read_start_light
    dcPc,         \* position in detect_color / detectColor ("idle": not called, "done": returned)
    clock,        \* TimeNow(), in tenths of a second
    timeToDetect, \* detect_color: parameter timeToDetect, in seconds
    startTime,    \* detect_color / detectColor: local startTime
    color,        \* detect_color / detectColor: local color
    colorFound,   \* detect_color / detectColor: local colorFound
    sum,          \* detect_color / detectColor: local sum, in thousandths of a volt
    numValues,    \* detect_color / detectColor: local numValues (with sum, frozen at MaxValues)
    bodyRan,      \* history: the loop body of this call has run
    dcResult,     \* the value the call returned (-2: it has not returned)
    ynPc,         \* position in yesOrNo ("idle": not called, "done": returned to main)
    answer,       \* yesOrNo: local answer
    xCoord,       \* yesOrNo: local xCoord (-1: not written yet)
    touching,     \* the screen is being touched
    touchX,       \* x-coordinate of the touch
    courseNumber, \* main of the older snapshot: local courseNumber (-2: not assigned yet)
    smPc,         \* position in start_menu / confirmation ("idle": not called, "done": returned)
    screen,       \* start_menu: local screen
    courseChosen, \* start_menu: local courseChosen
    selection,    \* start_menu: local selection
    asked,        \* the course named by the prompt of the running confirmation call (0: none)
    cfSelection,  \* confirmation: local selection
    decision,     \* confirmation: local decision
    smResult,     \* the value start_menu returned (-1: it has not returned)
    lastYes,      \* history: the course of the latest confirmation that returned Yes (0: none)
    afterNo,      \* history: the latest confirmation of this call returned No
    seenAfterNo,  \* history: the sub-menus entered after a confirmation returned No
    pairStage,    \* SpecPair: 0 nothing called, 1 the routine of main.cpp runs, 2 it returned,
                  \* 3 the routine of the older snapshot runs, 4 it returned
    pairArgs,     \* SpecPair: <<routine, percent, inches or degrees>> of the two calls
    newSeq,       \* history: resets, motor commands and stops of the routine of main.cpp
    oldSeq        \* history: resets, motor commands and stops of the routine of the older snapshot

progVars == <<pc, caller, heading, difference, direction, axis, coord, orientation,
              bin, power, right_motor, left_motor, status>>
histVars == <<sample, same, allNeg, nSet, nCorrect, trace, ended, snapDone, nAx,
              badRead, snapEnded>>
moveVars == <<move, percent, expectedCounts, left_encoder, right_encoder, polled>>
moveHist == <<requested, average2, mtrace>>
tripVars == <<stage, before2, tripArgs>>
stepVars == <<step, nIter>>
mainVars == <<mainPc, lightOn, lightRet, cdsLow>>
colorVars == <<dcPc, clock, timeToDetect, startTime, color, colorFound, sum, numValues,
               bodyRan, dcResult>>
touchVars == <<ynPc, answer, xCoord, touching, touchX, courseNumber>>
menuVars == <<smPc, screen, courseChosen, selection, asked, cfSelection, decision,
              smResult, lastYes, afterNo, seenAfterNo>>
uiVars == <<colorVars, touchVars, menuVars>>
pairVars == <<pairStage, pairArgs, newSeq, oldSeq>>
auxVars == <<tripVars, stepVars, mainVars, uiVars, pairVars>>
otherVars == <<plant, position, moveVars, moveHist, auxVars>>
vars == <<progVars, histVars, otherVars>>

(***************************************************************************)
(* Pure computations of the source.                                        *)
(***************************************************************************)
Abs(x) == IF x < 0 THEN -x ELSE x

Bump(n) == IF n < MaxCount THEN n + 1 ELSE MaxCount

\* Lines 678-686: the difference computed before the loop.  r1 is the read of
\* line 680, r2 the read of line 681 or 682, r3 the read of line 683 or 685.
DifferenceAtEntry(t, r1, r2, r3) ==
    IF (t - r1) > HalfTurn THEN Abs(t - (r2 + FullTurn))
    ELSE IF (r2 - t) > HalfTurn THEN Abs((t + FullTurn) - r3)
    ELSE Abs((t + FullTurn) - (r3 + FullTurn))

\* A variant without the second wrap branch (the heading more than 180 degrees
\* above the target is not brought back across 0/360).
DifferenceInLoopOneSided(t, r1, r2, r3) ==
    IF (t - r1) > HalfTurn THEN Abs(t - (r2 + FullTurn))
    ELSE Abs((t + FullTurn) - (r3 + FullTurn))

\* Lines 740-747: the difference recomputed at the end of an iteration.
DifferenceInLoop(t, r1, r2, r3) ==
    IF (t - r1) > HalfTurn THEN Abs(t - (r2 + FullTurn))
    ELSE IF (r2 - t) > HalfTurn THEN Abs((t + FullTurn) - r3)
    ELSE Abs((t + FullTurn) - (r3 + FullTurn))

\* The readings a difference computation consumes: two in the first branch,
\* three otherwise.
DifferenceReads(t, r1, r2, r3) ==
    IF (t - r1) > HalfTurn THEN {r1, r2} ELSE {r1, r2, r3}

\* Variants of the loop condition: without the validity test, with the
\* threshold excluded from the tolerance band, and with "or" for "and".
LoopConditionDifferenceOnly(g, d) == d > RPS_TURN_THRESHOLD

LoopConditionInclusive(g, d) == (g >= 0) /\ (d >= RPS_TURN_THRESHOLD)

LoopConditionEither(g, d) == (g >= 0) \/ (d > RPS_TURN_THRESHOLD)

\* Line 693: the loop condition; g is its read of the heading.
LoopCondition(g, d) == (g >= 0) /\ (d > RPS_TURN_THRESHOLD)

\* A variant without the inversion of line 702-704.
TurnDirectionNoInversion(t, d1, d2) == IF d1 < t THEN 1 ELSE -1

\* Lines 695-704: d1 is the read of line 696, d2 the read of line 702.
TurnDirection(t, d1, d2) ==
    LET first == IF d1 < t THEN 1 ELSE -1
    IN  IF Abs(d2 - t) > HalfTurn THEN -first ELSE first

\* A variant that leaves the backward offset out.
PulseCommandNoOffset(dir) ==
    IF dir = 1
    THEN <<RPS_TURN_PULSE_PERCENT, -RPS_TURN_PULSE_PERCENT>>
    ELSE <<-RPS_TURN_PULSE_PERCENT, RPS_TURN_PULSE_PERCENT>>

\* A variant with the two pulses exchanged.
PulseCommandSwapped(dir) ==
    IF dir = 1
    THEN <<-RPS_TURN_PULSE_PERCENT - BACKWARDS_CALIBRATOR, RPS_TURN_PULSE_PERCENT>>
    ELSE <<RPS_TURN_PULSE_PERCENT, -RPS_TURN_PULSE_PERCENT - BACKWARDS_CALIBRATOR>>

\* Lines 711-712 and 725-726: the pulse commanded for a direction,
\* as <<right_motor, left_motor>>.
PulseCommand(dir) ==
    IF dir = 1
    THEN <<RPS_TURN_PULSE_PERCENT, -RPS_TURN_PULSE_PERCENT - BACKWARDS_CALIBRATOR>>
    ELSE <<-RPS_TURN_PULSE_PERCENT - BACKWARDS_CALIBRATOR, RPS_TURN_PULSE_PERCENT>>

\* Lines 598-599: turn_right_degrees' command, as <<right_motor, left_motor>>.
TurnRightCommand(pct) == <<-pct - BACKWARDS_CALIBRATOR, pct>>

\* A variant of the turn command without the calibrator.
TurnLeftCommandNoOffset(pct) == <<pct, -pct>>

\* Lines 644-645: turn_left_degrees' command, as <<right_motor, left_motor>>.
TurnLeftCommand(pct) == <<pct, -pct - BACKWARDS_CALIBRATOR>>

\* A variant that passes the percent on as given.
ForwardSecondsPercentPlain(pct) == pct

\* Lines 558-564: the percent move_forward_seconds gives both motors.
ForwardSecondsPercent(pct) ==
    IF pct < 0 THEN pct - BACKWARDS_CALIBRATOR ELSE pct

\* A variant that goes on with any orientation.
OrientationAlwaysValid(o) == TRUE

\* Line 771 / 834: the check routines go on only with a valid orientation.
OrientationValid(o) == o >= 0

\* A variant that puts the boundaries 90 and 270 in the west bin.
EastLikeStrict(o) == (o < Deg90) \/ (o > Deg270)

\* Line 776: RPS_check_x snaps to heading 0 (EAST) in this case, else to 180.
EastLike(o) == (o <= Deg90) \/ (o >= Deg270)

\* Line 839: RPS_check_y snaps to heading 90 (NORTH) in this case, else to 270.
NorthLike(o) == (o >= 0) /\ (o <= HalfTurn)

\* Lines 776-782 and 839-845: the branch taken and the heading handed to
\* RPS_correct_heading.
BinOf(ax, o) ==
    IF ax = "x" THEN (IF EastLike(o) THEN "EAST" ELSE "WEST")
    ELSE (IF NorthLike(o) THEN "NORTH" ELSE "SOUTH")

SnapHeading(b) ==
    CASE b = "EAST" -> 0
      [] b = "WEST" -> HalfTurn
      [] b = "NORTH" -> Deg90
      [] OTHER -> Deg270

\* A variant with the same sign of power in both bins.
PowerOfUnsigned(b) == RPS_TRANSLATIONAL_PULSE_PERCENT

\* Lines 785-788 and 848-851.
PowerOf(b) ==
    IF b \in {"WEST", "SOUTH"}
    THEN -RPS_TRANSLATIONAL_PULSE_PERCENT
    ELSE RPS_TRANSLATIONAL_PULSE_PERCENT

\* A variant that pulses on any non-zero error.
AxisConditionNoThreshold(v1, v2, c) == (v1 > 0) /\ (Abs(v2 - c) > 0)

\* Lines 791 and 854: v1 is the read of the validity test, v2 the read
\* inside abs() (made only when v1 > 0).
AxisCondition(v1, v2, c) ==
    (v1 > 0) /\ (Abs(v2 - c) > RPS_TRANSLATIONAL_THRESHOLD)

\* Lines 793-802 and 856-865: v3 is the read of the first test, v4 the read
\* of the second (made only when the first fails).  0 means no pulse.
AxisPulsePercent(v3, v4, c, p) ==
    IF v3 > c THEN ForwardSecondsPercent(-p)
    ELSE IF v4 < c THEN ForwardSecondsPercent(p)
    ELSE 0

(***************************************************************************)
(* Initial state: no routine running, motors stopped, nothing displayed.   *)
(***************************************************************************)
InitProgram ==
    /\ pc = "idle"
    /\ caller = "main"
    /\ heading = 0
    /\ difference = 0
    /\ direction = 0
    /\ axis = "x"
    /\ coord = 0
    /\ orientation = 0
    /\ bin = "EAST"
    /\ power = 0
    /\ right_motor = 0
    /\ left_motor = 0
    /\ status = ""
    /\ sample = 0
    /\ same = TRUE
    /\ allNeg = TRUE
    /\ nSet = 0
    /\ nCorrect = 0
    /\ trace = <<>>
    /\ ended = ""
    /\ snapDone = -1
    /\ nAx = 0
    /\ badRead = FALSE
    /\ snapEnded = ""
    /\ move = ""
    /\ percent = 0
    /\ expectedCounts = 0
    /\ left_encoder = 0
    /\ right_encoder = 0
    /\ polled = <<>>
    /\ requested = 0
    /\ average2 = 0
    /\ mtrace = <<>>
    /\ stage = 0
    /\ before2 = 0
    /\ tripArgs = <<0, 0>>
    /\ step = 0
    /\ nIter = 0
    /\ dcPc = "idle"
    /\ timeToDetect = 0
    /\ startTime = 0
    /\ color = -1
    /\ colorFound = 0
    /\ sum = 0
    /\ numValues = 0
    /\ bodyRan = FALSE
    /\ dcResult = -2
    /\ ynPc = "idle"
    /\ answer = -1
    /\ xCoord = -1
    /\ touching = FALSE
    /\ touchX = 0
    /\ courseNumber = -2
    /\ smPc = "idle"
    /\ screen = "MAIN_MENU"
    /\ courseChosen = 0
    /\ selection = 0
    /\ asked = 0
    /\ cfSelection = 0
    /\ decision = -1
    /\ smResult = -1
    /\ lastYes = 0
    /\ afterNo = FALSE
    /\ seenAfterNo = {}
    /\ pairStage = 0
    /\ pairArgs = <<"", 0, 0>>
    /\ newSeq = <<>>
    /\ oldSeq = <<>>

\* main is inside run_course (lines 1119-1827): the start light has been seen.
InCourse ==
    /\ mainPc = "course"
    /\ lightOn = 1
    /\ lightRet = 1
    /\ cdsLow = TRUE
    /\ clock = 0

Init == InitProgram /\ InCourse /\ plant = 0 /\ position = 0

(***************************************************************************)
(* The callers (run_course, lines 1119-1827): one correction call at a     *)
(* time, each started when the previous one has returned.                  *)
(***************************************************************************)
CallCorrectHeading(t) ==
    /\ pc = "idle"
    /\ pc' = "ch_entry"
    /\ caller' = "main"
    /\ heading' = t
    /\ nSet' = 0
    /\ nCorrect' = 0
    /\ ended' = ""
    /\ status' = ""
    /\ UNCHANGED <<difference, direction, axis, coord, orientation, bin, power,
                   right_motor, left_motor, sample, same, allNeg, trace>>
    /\ snapDone' = -1
    /\ nAx' = 0
    /\ badRead' = FALSE
    /\ snapEnded' = ""

CallCheck(ax, c) ==
    /\ pc = "idle"
    /\ pc' = "ax_entry"
    /\ axis' = ax
    /\ coord' = c
    /\ nSet' = 0
    /\ nCorrect' = 0
    /\ ended' = ""
    /\ status' = ""
    /\ UNCHANGED <<caller, heading, difference, direction, orientation, bin, power,
                   right_motor, left_motor, sample, same, allNeg, trace>>
    /\ snapDone' = -1
    /\ nAx' = 0
    /\ badRead' = FALSE
    /\ snapEnded' = ""

(***************************************************************************)
(* RPS_correct_heading (lines 670-751).                                    *)
(***************************************************************************)
\* Lines 676-690: direction = 0 and the first difference.
ChEntry(r1, r2, r3) ==
    /\ pc = "ch_entry"
    /\ pc' = "ch_guard"
    /\ direction' = 0
    /\ difference' = DifferenceAtEntry(heading, r1, r2, r3)
    /\ allNeg' = (\A r \in DifferenceReads(heading, r1, r2, r3) : r < 0)
    /\ sample' = r1
    /\ same' = (DifferenceReads(heading, r1, r2, r3) = {r1})
    /\ trace' = <<>>
    /\ UNCHANGED <<caller, heading, axis, coord, orientation, bin, power, right_motor,
                   left_motor, status, nSet, nCorrect, ended>>
    /\ UNCHANGED <<snapDone, nAx>>
    /\ UNCHANGED <<badRead, snapEnded>>

\* A variant with a cap on the number of pulses of a call.
ChGuardCapped(g) ==
    /\ pc = "ch_guard"
    /\ pc' = IF LoopCondition(g, difference) /\ nSet < MaxCount THEN "ch_dir" ELSE "ch_ret"
    /\ ended' = IF LoopCondition(g, difference) /\ nSet < MaxCount THEN ""
                ELSE IF g < 0 THEN "loss" ELSE "converged"
    /\ allNeg' = (allNeg /\ g < 0)
    /\ sample' = g
    /\ same' = TRUE
    /\ trace' = <<>>
    /\ UNCHANGED <<caller, heading, difference, direction, axis, coord, orientation, bin,
                   power, right_motor, left_motor, status, nSet, nCorrect>>
    /\ UNCHANGED <<snapDone, nAx>>
    /\ badRead' = FALSE
    /\ UNCHANGED snapEnded

\* Line 693: the loop condition, read at the start of every iteration.
ChGuard(g) ==
    /\ pc = "ch_guard"
    /\ pc' = IF LoopCondition(g, difference) THEN "ch_dir" ELSE "ch_ret"
    /\ ended' = IF LoopCondition(g, difference) THEN ""
                ELSE IF g < 0 THEN "loss" ELSE "converged"
    /\ allNeg' = (allNeg /\ g < 0)
    /\ sample' = g
    /\ same' = TRUE
    /\ trace' = <<>>
    /\ UNCHANGED <<caller, heading, difference, direction, axis, coord, orientation, bin,
                   power, right_motor, left_motor, status, nSet, nCorrect>>
    /\ UNCHANGED <<snapDone, nAx>>
    /\ badRead' = FALSE
    /\ UNCHANGED snapEnded

\* Lines 695-704: the direction of this iteration's pulse.
ChDirection(d1, d2) ==
    /\ pc = "ch_dir"
    /\ pc' = "ch_set"
    /\ direction' = TurnDirection(heading, d1, d2)
    /\ allNeg' = (allNeg /\ d1 < 0 /\ d2 < 0)
    /\ same' = (same /\ d1 = sample /\ d2 = sample)
    /\ UNCHANGED <<caller, heading, difference, axis, coord, orientation, bin, power,
                   right_motor, left_motor, status, sample, nSet, nCorrect, trace, ended>>
    /\ UNCHANGED <<snapDone, nAx>>
    /\ badRead' = (d1 < 0 \/ d2 < 0)
    /\ UNCHANGED snapEnded

\* Lines 707-712 and 721-726: both motors set for the pulse.
ChPulseSet ==
    /\ pc = "ch_set"
    /\ pc' = "ch_sleep"
    /\ right_motor' = PulseCommand(direction)[1]
    /\ left_motor' = PulseCommand(direction)[2]
    /\ nSet' = Bump(nSet)
    /\ trace' = Append(trace, "set")
    /\ UNCHANGED <<caller, heading, difference, direction, axis, coord, orientation, bin,
                   power, status, sample, same, allNeg, nCorrect, ended>>
    /\ UNCHANGED <<snapDone, nAx>>
    /\ UNCHANGED <<badRead, snapEnded>>

\* Lines 715 and 729: Sleep(RPS_TURN_PULSE_TIME).
ChPulseSleep ==
    /\ pc = "ch_sleep"
    /\ pc' = "ch_stop"
    /\ trace' = Append(trace, "sleep")
    /\ UNCHANGED <<caller, heading, difference, direction, axis, coord, orientation, bin,
                   power, right_motor, left_motor, status, sample, same, allNeg, nSet,
                   nCorrect, ended>>
    /\ UNCHANGED <<snapDone, nAx>>
    /\ UNCHANGED <<badRead, snapEnded>>

\* A variant of the stop that leaves the motors running.
ChPulseStopSkipped ==
    /\ pc = "ch_stop"
    /\ pc' = "ch_settle"
    /\ UNCHANGED <<caller, heading, difference, direction, axis, coord, orientation, bin,
                   power, right_motor, left_motor, status, sample, same, allNeg, nSet,
                   nCorrect, trace, ended>>
    /\ UNCHANGED <<snapDone, nAx>>
    /\ UNCHANGED <<badRead, snapEnded>>

\* Lines 718-719 and 732-733: both motors stopped.
ChPulseStop ==
    /\ pc = "ch_stop"
    /\ pc' = "ch_settle"
    /\ right_motor' = 0
    /\ left_motor' = 0
    /\ trace' = Append(trace, "stop")
    /\ UNCHANGED <<caller, heading, difference, direction, axis, coord, orientation, bin,
                   power, status, sample, same, allNeg, nSet, nCorrect, ended>>
    /\ UNCHANGED <<snapDone, nAx>>
    /\ UNCHANGED <<badRead, snapEnded>>

\* Line 738: Sleep(RPS_DELAY_TIME).
ChSettle ==
    /\ pc = "ch_settle"
    /\ pc' = "ch_recompute"
    /\ trace' = Append(trace, "settle")
    /\ UNCHANGED <<caller, heading, difference, direction, axis, coord, orientation, bin,
                   power, right_motor, left_motor, status, sample, same, allNeg, nSet,
                   nCorrect, ended>>
    /\ UNCHANGED <<snapDone, nAx>>
    /\ UNCHANGED <<badRead, snapEnded>>

\* Lines 740-747: the oracle is read again and the difference recomputed.
ChRecompute(r1, r2, r3) ==
    /\ pc = "ch_recompute"
    /\ pc' = "ch_show"
    /\ difference' = DifferenceInLoop(heading, r1, r2, r3)
    /\ allNeg' = (allNeg /\ \A r \in DifferenceReads(heading, r1, r2, r3) : r < 0)
    /\ same' = (same /\ DifferenceReads(heading, r1, r2, r3) = {sample})
    /\ trace' = Append(trace, "resample")
    /\ UNCHANGED <<caller, heading, direction, axis, coord, orientation, bin, power,
                   right_motor, left_motor, status, sample, nSet, nCorrect, ended>>
    /\ UNCHANGED <<snapDone, nAx>>
    /\ UNCHANGED <<badRead, snapEnded>>

\* Line 749: show_RPS_data() (lines 1255-1282) writes the status line.
ChShow ==
    /\ pc = "ch_show"
    /\ pc' = "ch_guard"
    /\ status' = "Reading RPS Data"
    /\ UNCHANGED <<caller, heading, difference, direction, axis, coord, orientation, bin,
                   power, right_motor, left_motor, sample, same, allNeg, nSet, nCorrect,
                   trace, ended>>
    /\ UNCHANGED <<snapDone, nAx>>
    /\ UNCHANGED <<badRead, snapEnded>>

\* Line 751: return, to run_course or into RPS_check_x / RPS_check_y.
ChReturn ==
    /\ pc = "ch_ret"
    /\ pc' = IF caller = "main" THEN "idle" ELSE "ax_power"
    /\ caller' = "main"
    /\ heading' = 0
    /\ difference' = 0
    /\ direction' = 0
    /\ sample' = 0
    /\ same' = TRUE
    /\ allNeg' = TRUE
    /\ trace' = <<>>
    /\ ended' = ""
    /\ UNCHANGED <<axis, coord, orientation, bin, power, right_motor, left_motor, status,
                   nSet, nCorrect>>
    /\ snapDone' = IF caller = "main" THEN snapDone ELSE heading
    /\ UNCHANGED nAx
    /\ badRead' = FALSE
    /\ snapEnded' = IF caller = "main" THEN snapEnded ELSE ended

(***************************************************************************)
(* RPS_check_x (lines 759-814) and RPS_check_y (lines 822-877).            *)
(***************************************************************************)
\* A variant that goes to the translational loop without correcting the
\* heading.
AxEntrySkipsHeading(o) ==
    /\ pc = "ax_entry"
    /\ orientation' = o
    /\ IF OrientationValid(o)
       THEN /\ pc' = "ax_power"
            /\ status' = IF axis = "x" THEN "Correcting x with RPS"
                         ELSE "Correcting y with RPS"
            /\ bin' = BinOf(axis, o)
            /\ nCorrect' = 1
            /\ ended' = ""
            /\ UNCHANGED <<heading, caller>>
       ELSE /\ pc' = "ax_ret"
            /\ status' = "ERROR. RPS NOT READING."
            /\ ended' = "loss"
            /\ UNCHANGED <<bin, heading, caller, nCorrect>>
    /\ UNCHANGED <<difference, direction, axis, coord, power, right_motor, left_motor,
                   sample, same, allNeg, nSet, trace, snapDone, nAx>>
    /\ UNCHANGED <<badRead, snapEnded>>

\* Lines 764-782 / 827-845 and 811-813 / 874-876: the orientation is sampled
\* once; a valid one is announced and handed to RPS_correct_heading, an
\* invalid one is reported.
AxEntry(o) ==
    /\ pc = "ax_entry"
    /\ orientation' = o
    /\ IF OrientationValid(o)
       THEN /\ pc' = "ch_entry"
            /\ status' = IF axis = "x" THEN "Correcting x with RPS"
                         ELSE "Correcting y with RPS"
            /\ bin' = BinOf(axis, o)
            /\ heading' = SnapHeading(BinOf(axis, o))
            /\ caller' = axis
            /\ nCorrect' = 1
            /\ ended' = ""
       ELSE /\ pc' = "ax_ret"
            /\ status' = "ERROR. RPS NOT READING."
            /\ ended' = "loss"
            /\ UNCHANGED <<bin, heading, caller, nCorrect>>
    /\ UNCHANGED <<difference, direction, axis, coord, power, right_motor, left_motor,
                   sample, same, allNeg, nSet, trace>>
    /\ UNCHANGED <<snapDone, nAx>>
    /\ UNCHANGED <<badRead, snapEnded>>

\* Lines 784-788 / 847-851: the sign of the pulses for the bin.
AxPower ==
    /\ pc = "ax_power"
    /\ pc' = "ax_guard"
    /\ power' = PowerOf(bin)
    /\ UNCHANGED <<caller, heading, difference, direction, axis, coord, orientation, bin,
                   right_motor, left_motor, status, sample, same, allNeg, nSet, nCorrect,
                   trace, ended>>
    /\ UNCHANGED <<snapDone, nAx>>
    /\ UNCHANGED <<badRead, snapEnded>>

\* Line 791 / 854: the loop condition of the translational loop.
AxGuard(v1, v2) ==
    /\ pc = "ax_guard"
    /\ pc' = IF AxisCondition(v1, v2, coord) THEN "ax_branch" ELSE "ax_ret"
    /\ ended' = IF AxisCondition(v1, v2, coord) THEN ""
                ELSE IF v1 < 0 THEN "loss"
                ELSE IF v1 = 0 THEN "zero" ELSE "converged"
    /\ sample' = v1
    /\ same' = ((v1 > 0) => (v2 = v1))
    /\ UNCHANGED <<caller, heading, difference, direction, axis, coord, orientation, bin,
                   power, right_motor, left_motor, status, allNeg, nSet, nCorrect, trace>>
    /\ UNCHANGED <<snapDone, nAx>>
    /\ badRead' = FALSE
    /\ UNCHANGED snapEnded

\* Lines 793-802 / 856-865, with lines 558-564 of move_forward_seconds: the
\* pulse is chosen and both motors are set, or no pulse is issued.
AxBranch(v3, v4) ==
    /\ pc = "ax_branch"
    /\ same' = (same /\ v3 = sample /\ ((v3 > coord) \/ (v4 = sample)))
    /\ IF AxisPulsePercent(v3, v4, coord, power) # 0
       THEN /\ pc' = "ax_sleep"
            /\ right_motor' = AxisPulsePercent(v3, v4, coord, power)
            /\ left_motor' = AxisPulsePercent(v3, v4, coord, power)
            /\ nSet' = Bump(nSet)
            /\ nAx' = Bump(nAx)
       ELSE /\ pc' = "ax_settle"
            /\ UNCHANGED <<right_motor, left_motor, nSet, nAx>>
    /\ UNCHANGED <<caller, heading, difference, direction, axis, coord, orientation, bin,
                   power, status, sample, allNeg, nCorrect, trace, ended>>
    /\ UNCHANGED snapDone
    /\ badRead' = (v3 < 0 \/ (v3 <= coord /\ v4 < 0))
    /\ UNCHANGED snapEnded

\* Line 566: Sleep(seconds) inside move_forward_seconds.
AxPulseSleep ==
    /\ pc = "ax_sleep"
    /\ pc' = "ax_stop"
    /\ UNCHANGED <<caller, heading, difference, direction, axis, coord, orientation, bin,
                   power, right_motor, left_motor, status, sample, same, allNeg, nSet,
                   nCorrect, trace, ended>>
    /\ UNCHANGED <<snapDone, nAx>>
    /\ UNCHANGED <<badRead, snapEnded>>

\* Lines 568-570: move_forward_seconds stops both motors.
AxPulseStop ==
    /\ pc = "ax_stop"
    /\ pc' = "ax_settle"
    /\ right_motor' = 0
    /\ left_motor' = 0
    /\ UNCHANGED <<caller, heading, difference, direction, axis, coord, orientation, bin,
                   power, status, sample, same, allNeg, nSet, nCorrect, trace, ended>>
    /\ UNCHANGED <<snapDone, nAx>>
    /\ UNCHANGED <<badRead, snapEnded>>

\* Line 803 / 866: Sleep(RPS_DELAY_TIME).
AxSettle ==
    /\ pc = "ax_settle"
    /\ pc' = "ax_show"
    /\ UNCHANGED <<caller, heading, difference, direction, axis, coord, orientation, bin,
                   power, right_motor, left_motor, status, sample, same, allNeg, nSet,
                   nCorrect, trace, ended>>
    /\ UNCHANGED <<snapDone, nAx>>
    /\ UNCHANGED <<badRead, snapEnded>>

\* Line 805 / 868: show_RPS_data().
AxShow ==
    /\ pc = "ax_show"
    /\ pc' = "ax_guard"
    /\ status' = "Reading RPS Data"
    /\ UNCHANGED <<caller, heading, difference, direction, axis, coord, orientation, bin,
                   power, right_motor, left_motor, sample, same, allNeg, nSet, nCorrect,
                   trace, ended>>
    /\ UNCHANGED <<snapDone, nAx>>
    /\ UNCHANGED <<badRead, snapEnded>>

\* Line 814 / 877: return to run_course.
AxReturn ==
    /\ pc = "ax_ret"
    /\ pc' = "idle"
    /\ coord' = 0
    /\ orientation' = 0
    /\ bin' = "EAST"
    /\ power' = 0
    /\ axis' = "x"
    /\ sample' = 0
    /\ same' = TRUE
    /\ ended' = ""
    /\ nCorrect' = 0
    /\ UNCHANGED <<caller, heading, difference, direction, right_motor, left_motor,
                   status, allNeg, nSet, trace>>
    /\ snapDone' = -1
    /\ nAx' = 0
    /\ badRead' = FALSE
    /\ snapEnded' = ""

(***************************************************************************)
(* Spec: the oracle may return any reading on any read.                    *)
(***************************************************************************)
Next ==
    \/ \E t \in Targets : CallCorrectHeading(t) /\ UNCHANGED otherVars
    \/ \E ax \in {"x", "y"}, c \in AxisTargets : CallCheck(ax, c) /\ UNCHANGED otherVars
    \/ \E r1, r2, r3 \in HeadingReadings : ChEntry(r1, r2, r3) /\ UNCHANGED otherVars
    \/ \E g \in HeadingReadings : ChGuard(g) /\ UNCHANGED otherVars
    \/ \E d1, d2 \in HeadingReadings : ChDirection(d1, d2) /\ UNCHANGED otherVars
    \/ ChPulseSet /\ UNCHANGED otherVars
    \/ ChPulseSleep /\ UNCHANGED otherVars
    \/ ChPulseStop /\ UNCHANGED otherVars
    \/ ChSettle /\ UNCHANGED otherVars
    \/ \E r1, r2, r3 \in HeadingReadings : ChRecompute(r1, r2, r3) /\ UNCHANGED otherVars
    \/ ChShow /\ UNCHANGED otherVars
    \/ ChReturn /\ UNCHANGED otherVars
    \/ \E o \in HeadingReadings : AxEntry(o) /\ UNCHANGED otherVars
    \/ AxPower /\ UNCHANGED otherVars
    \/ \E v1, v2 \in AxisReadings : AxGuard(v1, v2) /\ UNCHANGED otherVars
    \/ \E v3, v4 \in AxisReadings : AxBranch(v3, v4) /\ UNCHANGED otherVars
    \/ AxPulseSleep /\ UNCHANGED otherVars
    \/ AxPulseStop /\ UNCHANGED otherVars
    \/ AxSettle /\ UNCHANGED otherVars
    \/ AxShow /\ UNCHANGED otherVars
    \/ AxReturn /\ UNCHANGED otherVars

Spec == Init /\ [][Next]_vars

(***************************************************************************)
(* SpecPlant: RPS_correct_heading on a robot that turns.  The oracle       *)
(* returns the robot's physical heading on every read (always valid), and  *)
(* a pulse turns the robot while the motors run: counter-clockwise, the    *)
(* heading increasing, when the right wheel runs forward and the left      *)
(* backward, clockwise in the opposite case.  A pulse turns the robot by   *)
(* no more than the difference last computed.                              *)
(***************************************************************************)
ArcDistance(a, b) ==
    LET d == Abs(a - b)
    IN  IF d <= FullTurn - d THEN d ELSE FullTurn - d

PlantHeadings ==
    {h \in 0..(FullTurn - 1) :
        \/ h % GridStep = 0
        \/ \E c \in {0, Deg90, HalfTurn, Deg270} : ArcDistance(c, h) <= NearBand}

PlantTargets == Targets \cup {2}

\* The turns one pulse may produce: all the way, or a small step when close.
PlantSteps(d) == {d} \cup {s \in {1, 4} : s <= d /\ d <= NearBand}

RotationSense ==
    IF right_motor > 0 /\ left_motor < 0 THEN 1
    ELSE IF right_motor < 0 /\ left_motor > 0 THEN -1
    ELSE 0

PlantPulseSleep(s) ==
    /\ ChPulseSleep
    /\ plant' = (plant + RotationSense * s) % FullTurn
    /\ UNCHANGED <<position, moveVars, moveHist, auxVars>>

InitPlant == InitProgram /\ InCourse /\ plant \in PlantHeadings /\ position = 0

NextPlant ==
    \/ \E t \in PlantTargets : CallCorrectHeading(t) /\ UNCHANGED otherVars
    \/ ChEntry(plant, plant, plant) /\ UNCHANGED otherVars
    \/ ChGuard(plant) /\ UNCHANGED otherVars
    \/ ChDirection(plant, plant) /\ UNCHANGED otherVars
    \/ ChPulseSet /\ UNCHANGED otherVars
    \/ \E s \in PlantSteps(difference) : PlantPulseSleep(s)
    \/ ChPulseStop /\ UNCHANGED otherVars
    \/ ChSettle /\ UNCHANGED otherVars
    \/ ChRecompute(plant, plant, plant) /\ UNCHANGED otherVars
    \/ ChShow /\ UNCHANGED otherVars
    \/ ChReturn /\ UNCHANGED otherVars

SpecPlant == InitPlant /\ [][NextPlant]_vars

(***************************************************************************)
(* SpecAxis: RPS_check_x / RPS_check_y on a robot that turns and drives.   *)
(* The oracle returns the robot's physical heading and its physical        *)
(* coordinate on the axis under correction on every read.  A heading pulse *)
(* turns the robot as in SpecPlant.  A translational pulse moves it along  *)
(* the way it faces: forward motion raises X when the robot faces within   *)
(* 90 degrees of heading 0 and lowers it when it faces within 90 degrees   *)
(* of heading 180, and likewise Y for headings 90 and 270.  A pulse moves  *)
(* the robot by no more than the error of its coordinate.                  *)
(***************************************************************************)
AxisPlantHeadings == {0, 3, 6, Deg90, Deg90 + 1, 1350, HalfTurn, HalfTurn + 1,
                      Deg270 - 1, Deg270, 3594}

AxisPositions == {97, 99, 100, 102, 104}

\* The moves one translational pulse may produce: all the way, or one step.
AxisSteps(e) == {e} \cup {s \in {1} : s <= e}

\* 1: both wheels forward, -1: both wheels backward.
DriveSense ==
    IF right_motor > 0 /\ left_motor > 0 THEN 1
    ELSE IF right_motor < 0 /\ left_motor < 0 THEN -1
    ELSE 0

\* 1: forward motion raises the coordinate of axis ax, -1: lowers it.
FacingSign(ax, h) ==
    LET along == IF ax = "x" THEN 0 ELSE Deg90
    IN  IF ArcDistance(h, along) < Deg90 THEN 1
        ELSE IF ArcDistance(h, along) > Deg90 THEN -1
        ELSE 0

PlantAxSleep(s) ==
    /\ AxPulseSleep
    /\ position' = position + DriveSense * FacingSign(axis, plant) * s
    /\ UNCHANGED <<plant, moveVars, moveHist, auxVars>>

InitAxis ==
    /\ InitProgram
    /\ InCourse
    /\ plant \in AxisPlantHeadings
    /\ position \in AxisPositions

NextAxis ==
    \/ \E ax \in {"x", "y"}, c \in AxisTargets : CallCheck(ax, c) /\ UNCHANGED otherVars
    \/ AxEntry(plant) /\ UNCHANGED otherVars
    \/ ChEntry(plant, plant, plant) /\ UNCHANGED otherVars
    \/ ChGuard(plant) /\ UNCHANGED otherVars
    \/ ChDirection(plant, plant) /\ UNCHANGED otherVars
    \/ ChPulseSet /\ UNCHANGED otherVars
    \/ \E s \in PlantSteps(difference) : PlantPulseSleep(s)
    \/ ChPulseStop /\ UNCHANGED otherVars
    \/ ChSettle /\ UNCHANGED otherVars
    \/ ChRecompute(plant, plant, plant) /\ UNCHANGED otherVars
    \/ ChShow /\ UNCHANGED otherVars
    \/ ChReturn /\ UNCHANGED otherVars
    \/ AxPower /\ UNCHANGED otherVars
    \/ AxGuard(position, position) /\ UNCHANGED otherVars
    \/ AxBranch(position, position) /\ UNCHANGED otherVars
    \/ \E s \in AxisSteps(Abs(position - coord)) : PlantAxSleep(s)
    \/ AxPulseStop /\ UNCHANGED otherVars
    \/ AxSettle /\ UNCHANGED otherVars
    \/ AxShow /\ UNCHANGED otherVars
    \/ AxReturn /\ UNCHANGED otherVars

SpecAxis == InitAxis /\ [][NextAxis]_vars

(***************************************************************************)
(* The dead-reckoning routines: move_forward_inches (lines 511-548),       *)
(* move_forward_seconds (lines 556-571), turn_right_degrees (lines         *)
(* 579-617) and turn_left_degrees (lines 625-663).  Distances are in       *)
(* tenths of an inch, angles in tenths of a degree, expectedCounts in      *)
(* thousandths of a count.                                                 *)
(***************************************************************************)
MaxCounts == 6

MovePercents == {200, 0, -250}
MoveInches == {0, 1}
MoveDegrees == {0, 10}

correctionVars == <<caller, heading, difference, direction, axis, coord, orientation,
                    bin, power, status, histVars, plant, position>>

\* Line 513: COUNT_PER_INCH * inches.
ExpectedForwardCounts(inches) == (COUNT_PER_INCH * inches) \div 10

\* Lines 582 and 628: COUNT_PER_INCH * ((degrees * PI) / 180.0) * (ROBOT_WIDTH / 2);
\* the arc is kept to the thousandth of an inch.
ExpectedTurnCounts(degrees) ==
    LET arc == (degrees * PI * ROBOT_WIDTH) \div 3600000
    IN  (COUNT_PER_INCH * arc) \div 1000

\* A variant of the loop test that never fails.
PollContinuesAlways(l, r, e) == TRUE

\* A variant of the loop test that compares the sum, not the average.
PollContinuesNoHalving(l, r, e) == (l + r) * 1000 < e

\* A variant of the loop test that goes on polling at equality.
PollContinuesInclusive(l, r, e) == (l + r) * 500 <= e

\* Lines 533, 602 and 648: (left + right) / 2. < expectedCounts.
PollContinues(l, r, e) == (l + r) * 500 < e

\* Lines 529-530: move_forward_inches' command, as <<right_motor, left_motor>>.
ForwardCommand(pct) == <<pct, pct>>

\* The command of the running routine.
MoveCommand(mv, pct) ==
    CASE mv = "forward" -> ForwardCommand(pct)
      [] mv = "right" -> TurnRightCommand(pct)
      [] OTHER -> TurnLeftCommand(pct)

CallMoveForwardInches(p, inches) ==
    /\ pc = "idle"
    /\ pc' = "mv_reset"
    /\ move' = "forward"
    /\ percent' = p
    /\ expectedCounts' = ExpectedForwardCounts(inches)
    /\ requested' = p
    /\ average2' = 0
    /\ mtrace' = <<>>
    /\ UNCHANGED <<left_encoder, right_encoder, polled, right_motor, left_motor,
                   correctionVars>>

CallTurnRightDegrees(p, degrees) ==
    /\ pc = "idle"
    /\ pc' = "mv_reset"
    /\ move' = "right"
    /\ percent' = p
    /\ expectedCounts' = ExpectedTurnCounts(degrees)
    /\ requested' = p
    /\ average2' = 0
    /\ mtrace' = <<>>
    /\ UNCHANGED <<left_encoder, right_encoder, polled, right_motor, left_motor,
                   correctionVars>>

CallTurnLeftDegrees(p, degrees) ==
    /\ pc = "idle"
    /\ pc' = "mv_reset"
    /\ move' = "left"
    /\ percent' = p
    /\ expectedCounts' = ExpectedTurnCounts(degrees)
    /\ requested' = p
    /\ average2' = 0
    /\ mtrace' = <<>>
    /\ UNCHANGED <<left_encoder, right_encoder, polled, right_motor, left_motor,
                   correctionVars>>

CallMoveForwardSeconds(p) ==
    /\ pc = "idle"
    /\ pc' = "fs_adjust"
    /\ move' = "seconds"
    /\ percent' = p
    /\ requested' = p
    /\ average2' = 0
    /\ mtrace' = <<>>
    /\ UNCHANGED <<expectedCounts, left_encoder, right_encoder, polled, right_motor,
                   left_motor, correctionVars>>

\* A variant that leaves the encoders as they are.
MvResetSkipped ==
    /\ pc = "mv_reset"
    /\ pc' = "mv_set"
    /\ mtrace' = Append(mtrace, "reset")
    /\ UNCHANGED <<move, percent, expectedCounts, left_encoder, right_encoder, polled,
                   requested, average2, right_motor, left_motor, correctionVars>>

\* Lines 525-526, 594-595 and 640-641: both encoders reset.
MvReset ==
    /\ pc = "mv_reset"
    /\ pc' = "mv_set"
    /\ right_encoder' = 0
    /\ left_encoder' = 0
    /\ mtrace' = Append(mtrace, "reset")
    /\ UNCHANGED <<move, percent, expectedCounts, polled, requested, average2,
                   right_motor, left_motor, correctionVars>>

\* Lines 529-530, 598-599 and 644-645: both motors set.
MvSet ==
    /\ pc = "mv_set"
    /\ pc' = "mv_poll"
    /\ right_motor' = MoveCommand(move, percent)[1]
    /\ left_motor' = MoveCommand(move, percent)[2]
    /\ mtrace' = Append(mtrace, "set")
    /\ UNCHANGED <<move, percent, expectedCounts, left_encoder, right_encoder, polled,
                   requested, average2, correctionVars>>

\* Lines 533, 602 and 648: the first of the two Counts() reads of the loop
\* test; which operand of + is read first is the compiler's choice.
MvPollFirst(side) ==
    /\ pc = "mv_poll"
    /\ pc' = "mv_poll2"
    /\ polled' = <<side, IF side = "left" THEN left_encoder ELSE right_encoder>>
    /\ UNCHANGED <<move, percent, expectedCounts, left_encoder, right_encoder, requested,
                   average2, mtrace, right_motor, left_motor, correctionVars>>

\* Lines 533, 602 and 648: the second read and the test.
MvPollSecond ==
    /\ pc = "mv_poll2"
    /\ LET other == IF polled[1] = "left" THEN right_encoder ELSE left_encoder
       IN  /\ pc' = IF PollContinues(polled[2], other, expectedCounts)
                    THEN "mv_poll" ELSE "mv_stop"
           /\ average2' = polled[2] + other
    /\ polled' = <<>>
    /\ mtrace' = IF \E i \in 1..Len(mtrace) : mtrace[i] = "poll"
                 THEN mtrace ELSE Append(mtrace, "poll")
    /\ UNCHANGED <<move, percent, expectedCounts, left_encoder, right_encoder, requested,
                   right_motor, left_motor, correctionVars>>

\* Lines 536-537, 605-606 and 651-652: both motors stopped.
MvStop ==
    /\ pc = "mv_stop"
    /\ pc' = "mv_show"
    /\ right_motor' = 0
    /\ left_motor' = 0
    /\ mtrace' = Append(mtrace, "stop")
    /\ UNCHANGED <<move, percent, expectedCounts, left_encoder, right_encoder, polled,
                   requested, average2, correctionVars>>

\* Lines 540-547, 609-616 and 655-662: the data are displayed and the
\* routine returns.
MvShow ==
    /\ pc = "mv_show"
    /\ pc' = "idle"
    /\ move' = ""
    /\ percent' = 0
    /\ expectedCounts' = 0
    /\ requested' = 0
    /\ average2' = 0
    /\ mtrace' = <<>>
    /\ UNCHANGED <<left_encoder, right_encoder, polled, right_motor, left_motor,
                   correctionVars>>

\* Lines 558-560: a negative percent is lowered by the calibrator.
FsAdjust ==
    /\ pc = "fs_adjust"
    /\ pc' = "fs_set"
    /\ percent' = ForwardSecondsPercent(percent)
    /\ UNCHANGED <<move, expectedCounts, left_encoder, right_encoder, polled, requested,
                   average2, mtrace, right_motor, left_motor, correctionVars>>

\* Lines 563-564: both motors set.
FsSet ==
    /\ pc = "fs_set"
    /\ pc' = "fs_sleep"
    /\ right_motor' = percent
    /\ left_motor' = percent
    /\ mtrace' = Append(mtrace, "set")
    /\ UNCHANGED <<move, percent, expectedCounts, left_encoder, right_encoder, polled,
                   requested, average2, correctionVars>>

\* Line 566: Sleep(seconds).
FsSleep ==
    /\ pc = "fs_sleep"
    /\ pc' = "fs_stop"
    /\ mtrace' = Append(mtrace, "sleep")
    /\ UNCHANGED <<move, percent, expectedCounts, left_encoder, right_encoder, polled,
                   requested, average2, right_motor, left_motor, correctionVars>>

\* A variant that returns with the motors running.
FsStopSkipped ==
    /\ pc = "fs_stop"
    /\ pc' = "fs_ret"
    /\ mtrace' = Append(mtrace, "stop")
    /\ UNCHANGED <<move, percent, expectedCounts, left_encoder, right_encoder, polled,
                   requested, average2, right_motor, left_motor, correctionVars>>

\* Lines 569-570: both motors stopped.
FsStop ==
    /\ pc = "fs_stop"
    /\ pc' = "fs_ret"
    /\ right_motor' = 0
    /\ left_motor' = 0
    /\ mtrace' = Append(mtrace, "stop")
    /\ UNCHANGED <<move, percent, expectedCounts, left_encoder, right_encoder, polled,
                   requested, average2, correctionVars>>

\* Line 571: return to run_course.
FsReturn ==
    /\ pc = "fs_ret"
    /\ pc' = "idle"
    /\ move' = ""
    /\ percent' = 0
    /\ requested' = 0
    /\ mtrace' = <<>>
    /\ UNCHANGED <<expectedCounts, left_encoder, right_encoder, polled, average2,
                   right_motor, left_motor, correctionVars>>

\* The wheels: an encoder counts a transition while its motor is powered.
EncoderTick(side) ==
    /\ move # ""
    /\ IF side = "left"
       THEN /\ left_motor # 0
            /\ left_encoder < MaxCounts
            /\ left_encoder' = left_encoder + 1
            /\ UNCHANGED right_encoder
       ELSE /\ right_motor # 0
            /\ right_encoder < MaxCounts
            /\ right_encoder' = right_encoder + 1
            /\ UNCHANGED left_encoder
    /\ UNCHANGED <<pc, move, percent, expectedCounts, polled, requested, average2, mtrace,
                   right_motor, left_motor, correctionVars>>

(***************************************************************************)
(* SpecMove: the dead-reckoning routines, one call at a time, with the     *)
(* encoders counting while the motors run.                                 *)
(***************************************************************************)
NextMove ==
    \/ \E p \in MovePercents, i \in MoveInches : CallMoveForwardInches(p, i) /\ UNCHANGED auxVars
    \/ \E p \in MovePercents, d \in MoveDegrees : CallTurnRightDegrees(p, d) /\ UNCHANGED auxVars
    \/ \E p \in MovePercents, d \in MoveDegrees : CallTurnLeftDegrees(p, d) /\ UNCHANGED auxVars
    \/ \E p \in MovePercents : CallMoveForwardSeconds(p) /\ UNCHANGED auxVars
    \/ MvReset /\ UNCHANGED auxVars
    \/ MvSet /\ UNCHANGED auxVars
    \/ \E side \in {"left", "right"} : MvPollFirst(side) /\ UNCHANGED auxVars
    \/ MvPollSecond /\ UNCHANGED auxVars
    \/ MvStop /\ UNCHANGED auxVars
    \/ MvShow /\ UNCHANGED auxVars
    \/ FsAdjust /\ UNCHANGED auxVars
    \/ FsSet /\ UNCHANGED auxVars
    \/ FsSleep /\ UNCHANGED auxVars
    \/ FsStop /\ UNCHANGED auxVars
    \/ FsReturn /\ UNCHANGED auxVars
    \/ \E side \in {"left", "right"} : EncoderTick(side) /\ UNCHANGED auxVars

SpecMove == Init /\ [][NextMove]_vars

\* SpecMoveFair: a routine that is running takes its next step, and an
\* encoder whose motor is powered goes on counting.
MoveStep ==
    /\ \/ MvReset
       \/ MvSet
       \/ \E side \in {"left", "right"} : MvPollFirst(side)
       \/ MvPollSecond
       \/ MvStop
       \/ MvShow
       \/ FsAdjust
       \/ FsSet
       \/ FsSleep
       \/ FsStop
       \/ FsReturn
    /\ UNCHANGED auxVars

SpecMoveFair ==
    /\ Init
    /\ [][NextMove]_vars
    /\ WF_vars(MoveStep)
    /\ WF_vars(EncoderTick("left") /\ UNCHANGED auxVars)
    /\ WF_vars(EncoderTick("right") /\ UNCHANGED auxVars)

(***************************************************************************)
(* SpecTrip: pairs of calls move_forward_inches(p, d), then                *)
(* move_forward_inches(-p, d), on a mock pair of encoders that count       *)
(* linearly with the time their motors are powered: both motors run at the *)
(* same magnitude, so both encoders count together.                        *)
(***************************************************************************)
TripFirst(p, inches) ==
    /\ stage \in {0, 2}
    /\ CallMoveForwardInches(p, inches)
    /\ stage' = 1
    /\ before2' = left_encoder + right_encoder
    /\ tripArgs' = <<p, inches>>
    /\ UNCHANGED <<stepVars, mainVars, uiVars, pairVars>>

TripSecond ==
    /\ stage = 1
    /\ CallMoveForwardInches(-tripArgs[1], tripArgs[2])
    /\ stage' = 2
    /\ UNCHANGED <<before2, tripArgs, stepVars, mainVars, uiVars, pairVars>>

MockTick ==
    /\ move # ""
    /\ right_motor # 0
    /\ left_motor # 0
    /\ left_encoder < MaxCounts
    /\ right_encoder < MaxCounts
    /\ left_encoder' = left_encoder + 1
    /\ right_encoder' = right_encoder + 1
    /\ UNCHANGED <<pc, move, percent, expectedCounts, polled, requested, average2, mtrace,
                   right_motor, left_motor, correctionVars, auxVars>>

NextTrip ==
    \/ \E p \in MovePercents, i \in MoveInches : TripFirst(p, i)
    \/ TripSecond
    \/ MvReset /\ UNCHANGED auxVars
    \/ MvSet /\ UNCHANGED auxVars
    \/ \E side \in {"left", "right"} : MvPollFirst(side) /\ UNCHANGED auxVars
    \/ MvPollSecond /\ UNCHANGED auxVars
    \/ MvStop /\ UNCHANGED auxVars
    \/ MvShow /\ UNCHANGED auxVars
    \/ MockTick

SpecTrip == Init /\ [][NextTrip]_vars

(***************************************************************************)
(* SpecStep: RPS_correct_heading called with the heading more than the     *)
(* threshold and at most twice the threshold from the target, on a robot   *)
(* every pulse turns by the same step, positive and no larger than the     *)
(* threshold, in the sense the motors are driven.  The oracle returns the  *)
(* robot's heading on every read.  The routine keeps running (weak         *)
(* fairness of its steps).                                                 *)
(***************************************************************************)
MaxIter == 8

StepSizes == 1..RPS_TURN_THRESHOLD

StepErrors == (RPS_TURN_THRESHOLD + 1)..(2 * RPS_TURN_THRESHOLD)

StepHeadings ==
    {h \in 0..(FullTurn - 1) : \E t \in PlantTargets : ArcDistance(h, t) \in StepErrors}

BumpIter(n) == IF n < MaxIter THEN n + 1 ELSE MaxIter

CallStep(t, s) ==
    /\ ArcDistance(plant, t) \in StepErrors
    /\ CallCorrectHeading(t)
    /\ step' = s
    /\ nIter' = 0
    /\ UNCHANGED <<plant, position, moveVars, moveHist, tripVars, mainVars, uiVars, pairVars>>

CountedPulseSet ==
    /\ ChPulseSet
    /\ nIter' = BumpIter(nIter)
    /\ UNCHANGED <<plant, position, moveVars, moveHist, tripVars, mainVars, uiVars, pairVars, step>>

StepPulseSleep ==
    /\ ChPulseSleep
    /\ plant' = (plant + RotationSense * step) % FullTurn
    /\ UNCHANGED <<position, moveVars, moveHist, auxVars>>

InitStep == InitProgram /\ InCourse /\ plant \in StepHeadings /\ position = 0

NextStep ==
    \/ \E t \in PlantTargets, s \in StepSizes : CallStep(t, s)
    \/ ChEntry(plant, plant, plant) /\ UNCHANGED otherVars
    \/ ChGuard(plant) /\ UNCHANGED otherVars
    \/ ChDirection(plant, plant) /\ UNCHANGED otherVars
    \/ CountedPulseSet
    \/ StepPulseSleep
    \/ ChPulseStop /\ UNCHANGED otherVars
    \/ ChSettle /\ UNCHANGED otherVars
    \/ ChRecompute(plant, plant, plant) /\ UNCHANGED otherVars
    \/ ChShow /\ UNCHANGED otherVars
    \/ ChReturn /\ UNCHANGED otherVars

SpecStep == InitStep /\ [][NextStep]_vars /\ WF_vars(NextStep)

(***************************************************************************)
(* SpecStuck: the correction routines on a robot whose error never comes   *)
(* within the threshold once it is outside it: the oracle is always valid  *)
(* and returns the robot's heading and coordinate, and a pulse either      *)
(* leaves the robot where it is (a stuck reading) or carries it past the   *)
(* target by as much as it was short of it (an overshoot of the tolerance  *)
(* band).  The routines keep running (weak fairness of their steps).       *)
(***************************************************************************)
StuckSteps(e) == {0, 2 * e}

CallStuckHeading(t) ==
    /\ CallCorrectHeading(t)
    /\ nIter' = 0
    /\ UNCHANGED <<plant, position, moveVars, moveHist, tripVars, mainVars, uiVars, pairVars, step>>

CallStuckCheck(ax, c) ==
    /\ CallCheck(ax, c)
    /\ nIter' = 0
    /\ UNCHANGED <<plant, position, moveVars, moveHist, tripVars, mainVars, uiVars, pairVars, step>>

StuckPulseSleep(s) ==
    /\ ChPulseSleep
    /\ plant' = (plant + RotationSense * s) % FullTurn
    /\ UNCHANGED <<position, moveVars, moveHist, auxVars>>

CountedAxBranch ==
    /\ AxBranch(position, position)
    /\ nIter' = IF pc' = "ax_sleep" THEN BumpIter(nIter) ELSE nIter
    /\ UNCHANGED <<plant, position, moveVars, moveHist, tripVars, mainVars, uiVars, pairVars, step>>

InitStuck == InitAxis

NextStuck ==
    \/ \E t \in PlantTargets : CallStuckHeading(t)
    \/ \E ax \in {"x", "y"}, c \in AxisTargets : CallStuckCheck(ax, c)
    \/ AxEntry(plant) /\ UNCHANGED otherVars
    \/ ChEntry(plant, plant, plant) /\ UNCHANGED otherVars
    \/ ChGuard(plant) /\ UNCHANGED otherVars
    \/ ChDirection(plant, plant) /\ UNCHANGED otherVars
    \/ CountedPulseSet
    \/ \E s \in StuckSteps(ArcDistance(plant, heading)) : StuckPulseSleep(s)
    \/ ChPulseStop /\ UNCHANGED otherVars
    \/ ChSettle /\ UNCHANGED otherVars
    \/ ChRecompute(plant, plant, plant) /\ UNCHANGED otherVars
    \/ ChShow /\ UNCHANGED otherVars
    \/ ChReturn /\ UNCHANGED otherVars
    \/ AxPower /\ UNCHANGED otherVars
    \/ AxGuard(position, position) /\ UNCHANGED otherVars
    \/ CountedAxBranch
    \/ \E s \in StuckSteps(Abs(position - coord)) : PlantAxSleep(s)
    \/ AxPulseStop /\ UNCHANGED otherVars
    \/ AxSettle /\ UNCHANGED otherVars
    \/ AxShow /\ UNCHANGED otherVars
    \/ AxReturn /\ UNCHANGED otherVars

SpecStuck == InitStuck /\ [][NextStuck]_vars /\ WF_vars(NextStuck)

(***************************************************************************)
(* SpecAll: any sequence of calls of the dead-reckoning and correction     *)
(* routines (run_course, lines 1119-1827), each started when the previous  *)
(* one has returned.  The oracle may return any reading on any read and    *)
(* the encoders count while the motors run.                                *)
(***************************************************************************)
AllHeadingReadings == {-10, 0, 1350}

AllAxisReadings == {-10, 99, 102}

NextAll ==
    \/ \E t \in {0} : CallCorrectHeading(t) /\ UNCHANGED otherVars
    \/ \E ax \in {"x", "y"} : CallCheck(ax, 100) /\ UNCHANGED otherVars
    \/ \E r1, r2, r3 \in AllHeadingReadings : ChEntry(r1, r2, r3) /\ UNCHANGED otherVars
    \/ \E g \in AllHeadingReadings : ChGuard(g) /\ UNCHANGED otherVars
    \/ \E d1, d2 \in AllHeadingReadings : ChDirection(d1, d2) /\ UNCHANGED otherVars
    \/ ChPulseSet /\ UNCHANGED otherVars
    \/ ChPulseSleep /\ UNCHANGED otherVars
    \/ ChPulseStop /\ UNCHANGED otherVars
    \/ ChSettle /\ UNCHANGED otherVars
    \/ \E r1, r2, r3 \in AllHeadingReadings : ChRecompute(r1, r2, r3) /\ UNCHANGED otherVars
    \/ ChShow /\ UNCHANGED otherVars
    \/ ChReturn /\ UNCHANGED otherVars
    \/ \E o \in AllHeadingReadings : AxEntry(o) /\ UNCHANGED otherVars
    \/ AxPower /\ UNCHANGED otherVars
    \/ \E v1, v2 \in AllAxisReadings : AxGuard(v1, v2) /\ UNCHANGED otherVars
    \/ \E v3, v4 \in AllAxisReadings : AxBranch(v3, v4) /\ UNCHANGED otherVars
    \/ AxPulseSleep /\ UNCHANGED otherVars
    \/ AxPulseStop /\ UNCHANGED otherVars
    \/ AxSettle /\ UNCHANGED otherVars
    \/ AxShow /\ UNCHANGED otherVars
    \/ AxReturn /\ UNCHANGED otherVars
    \/ \E p \in MovePercents : CallMoveForwardInches(p, 1) /\ UNCHANGED auxVars
    \/ \E p \in MovePercents : CallTurnRightDegrees(p, 10) /\ UNCHANGED auxVars
    \/ \E p \in MovePercents : CallTurnLeftDegrees(p, 10) /\ UNCHANGED auxVars
    \/ \E p \in MovePercents : CallMoveForwardSeconds(p) /\ UNCHANGED auxVars
    \/ MvReset /\ UNCHANGED auxVars
    \/ MvSet /\ UNCHANGED auxVars
    \/ \E side \in {"left", "right"} : MvPollFirst(side) /\ UNCHANGED auxVars
    \/ MvPollSecond /\ UNCHANGED auxVars
    \/ MvStop /\ UNCHANGED auxVars
    \/ MvShow /\ UNCHANGED auxVars
    \/ FsAdjust /\ UNCHANGED auxVars
    \/ FsSet /\ UNCHANGED auxVars
    \/ FsSleep /\ UNCHANGED auxVars
    \/ FsStop /\ UNCHANGED auxVars
    \/ FsReturn /\ UNCHANGED auxVars
    \/ \E side \in {"left", "right"} : EncoderTick(side) /\ UNCHANGED auxVars

SpecAll == Init /\ [][NextAll]_vars

(***************************************************************************)
(* SpecValid: RPS_correct_heading with an oracle that returns a valid      *)
(* heading, in [0, 360), on every read, not necessarily the same one on    *)
(* two reads.                                                              *)
(***************************************************************************)
ValidHeadingReadings == {r \in HeadingReadings : r >= 0}

NextValid ==
    \/ \E t \in Targets : CallCorrectHeading(t) /\ UNCHANGED otherVars
    \/ \E r1, r2, r3 \in ValidHeadingReadings : ChEntry(r1, r2, r3) /\ UNCHANGED otherVars
    \/ \E g \in ValidHeadingReadings : ChGuard(g) /\ UNCHANGED otherVars
    \/ \E d1, d2 \in ValidHeadingReadings : ChDirection(d1, d2) /\ UNCHANGED otherVars
    \/ ChPulseSet /\ UNCHANGED otherVars
    \/ ChPulseSleep /\ UNCHANGED otherVars
    \/ ChPulseStop /\ UNCHANGED otherVars
    \/ ChSettle /\ UNCHANGED otherVars
    \/ \E r1, r2, r3 \in ValidHeadingReadings : ChRecompute(r1, r2, r3) /\ UNCHANGED otherVars
    \/ ChShow /\ UNCHANGED otherVars
    \/ ChReturn /\ UNCHANGED otherVars

SpecValid == Init /\ [][NextValid]_vars

(***************************************************************************)
(* SpecMain: main (lines 1852-1876) with read_start_light (lines 482-503). *)
(* The CdS cell may return any reading on any read, in hundredths of a     *)
(* volt.  Once in run_course, the dead-reckoning routines are called.      *)
(***************************************************************************)
LightThreshold == 50

CdsReadings == {0, 49, 50, 51, 330}

mainFrame == <<pc, caller, heading, difference, direction, axis, coord, orientation, bin,
               power, right_motor, left_motor, histVars, plant, position, moveVars,
               moveHist, tripVars, stepVars, uiVars, pairVars>>

\* A variant of the test that takes any reading for the light.
LightDetectedAlways(v) == TRUE

\* Line 496: CdS_cell.Value() < 0.5.
LightDetected(v) == v < LightThreshold

\* Lines 1855-1865: servos, RPS and display are set up.
MainSetup ==
    /\ mainPc = "start"
    /\ mainPc' = "light_entry"
    /\ UNCHANGED <<lightOn, lightRet, cdsLow, status, mainFrame>>

\* Lines 482-487: read_start_light is entered.
LightEntry ==
    /\ mainPc = "light_entry"
    /\ mainPc' = "light_loop"
    /\ lightOn' = 0
    /\ status' = "Waiting for light"
    /\ UNCHANGED <<lightRet, cdsLow, mainFrame>>

\* Line 490: while (!lightOn).
LightLoop ==
    /\ mainPc = "light_loop"
    /\ mainPc' = IF lightOn = 0 THEN "light_show" ELSE "light_ret"
    /\ UNCHANGED <<lightOn, lightRet, cdsLow, status, mainFrame>>

\* Lines 492-493: the CdS value is read and displayed.
LightShow(v) ==
    /\ mainPc = "light_show"
    /\ mainPc' = "light_test"
    /\ UNCHANGED <<lightOn, lightRet, cdsLow, status, mainFrame>>

\* Lines 496-499: the CdS value is read again and tested.
LightTest(v) ==
    /\ mainPc = "light_test"
    /\ mainPc' = "light_loop"
    /\ lightOn' = IF LightDetected(v) THEN 1 ELSE lightOn
    /\ status' = IF LightDetected(v) THEN "GO!" ELSE status
    /\ cdsLow' = (cdsLow \/ v < LightThreshold)
    /\ UNCHANGED <<lightRet, mainFrame>>

\* Lines 502 and 1871-1876: read_start_light returns and run_course begins.
LightReturn ==
    /\ mainPc = "light_ret"
    /\ mainPc' = "course"
    /\ lightRet' = lightOn
    /\ UNCHANGED <<lightOn, cdsLow, status, mainFrame>>

InitMain ==
    /\ InitProgram
    /\ plant = 0
    /\ position = 0
    /\ mainPc = "start"
    /\ lightOn = 0
    /\ lightRet = -1
    /\ cdsLow = FALSE
    /\ clock = 0

NextMain ==
    \/ MainSetup
    \/ LightEntry
    \/ LightLoop
    \/ \E v \in CdsReadings : LightShow(v)
    \/ \E v \in CdsReadings : LightTest(v)
    \/ LightReturn
    \/ mainPc = "course" /\ NextMove

SpecMain == InitMain /\ [][NextMain]_vars

(***************************************************************************)
(* SpecColor: detect_color (lines 906-979).  The CdS cell may return any   *)
(* reading on any read, in thousandths of a volt; the clock never runs     *)
(* backwards and Sleep(0.1) lasts at least a tenth of a second.            *)
(***************************************************************************)
ColorThreshold == 345

TicksPerSecond == 10

MaxClock == 45

MaxValues == 2

ColorReadings == {300, 345, 620}

\* Line 993: detect_color(4); the parameter is an int.
DetectTimes == {0, 1, 4}

\* The times at which the routine is called.
StartClocks == {0, 3}

nonUi == <<progVars, histVars, plant, position, moveVars, moveHist, tripVars, stepVars,
           mainVars, pairVars>>

colorRest == <<nonUi, touchVars, menuVars>>

\* TimeNow() - startTime, in tenths of a second.
Elapsed == clock - startTime

\* Line 922: ((TimeNow() - startTime) < timeToDetect) && !colorFound.
DetectContinues(e, t, f) == e < t * TicksPerSecond /\ f = 0

\* Lines 906-919: entry of detect_color.
CallDetectColor(t) ==
    /\ dcPc = "idle"
    /\ clock + t * TicksPerSecond + 2 <= MaxClock
    /\ dcPc' = "dc_test"
    /\ timeToDetect' = t
    /\ startTime' = clock
    /\ color' = -1
    /\ colorFound' = 0
    /\ sum' = 0
    /\ numValues' = 0
    /\ bodyRan' = FALSE
    /\ UNCHANGED <<clock, dcResult, colorRest>>

\* Line 922: the loop test.
DcTest ==
    /\ dcPc = "dc_test"
    /\ dcPc' = IF DetectContinues(Elapsed, timeToDetect, colorFound) THEN "dc_sum" ELSE "dc_ret"
    /\ UNCHANGED <<clock, timeToDetect, startTime, color, colorFound, sum, numValues,
                   bodyRan, dcResult, colorRest>>

\* Lines 925-927: the reading is added to the average.
DcSum(v) ==
    /\ dcPc = "dc_sum"
    /\ dcPc' = "dc_first"
    /\ sum' = IF numValues < MaxValues THEN sum + v ELSE sum
    /\ numValues' = IF numValues < MaxValues THEN numValues + 1 ELSE numValues
    /\ bodyRan' = TRUE
    /\ UNCHANGED <<clock, timeToDetect, startTime, color, colorFound, dcResult, colorRest>>

\* Lines 930-932: the first test of the CdS value.
DcFirst(v) ==
    /\ dcPc = "dc_first"
    /\ dcPc' = IF v < ColorThreshold THEN "dc_show" ELSE "dc_second"
    /\ color' = IF v < ColorThreshold THEN 0 ELSE color
    /\ colorFound' = IF v < ColorThreshold THEN 1 ELSE colorFound
    /\ UNCHANGED <<clock, timeToDetect, startTime, sum, numValues, bodyRan, dcResult,
                   colorRest>>

\* A variant of the second test without the default colour.
DcSecondNoDefault(v) ==
    /\ dcPc = "dc_second"
    /\ dcPc' = "dc_show"
    /\ color' = IF v > ColorThreshold THEN 1 ELSE color
    /\ colorFound' = IF v > ColorThreshold THEN 1 ELSE colorFound
    /\ UNCHANGED <<clock, timeToDetect, startTime, sum, numValues, bodyRan, dcResult,
                   colorRest>>

\* Lines 933-938: the second test of the CdS value, on a new read, and the default.
DcSecond(v) ==
    /\ dcPc = "dc_second"
    /\ dcPc' = "dc_show"
    /\ color' = IF v > ColorThreshold THEN 1 ELSE 0
    /\ colorFound' = IF v > ColorThreshold THEN 1 ELSE colorFound
    /\ UNCHANGED <<clock, timeToDetect, startTime, sum, numValues, bodyRan, dcResult,
                   colorRest>>

\* Lines 941-974: the elapsed time, a further CdS read, the colour and the average are shown.
DcShow(v) ==
    /\ dcPc = "dc_show"
    /\ dcPc' = "dc_sleep"
    /\ UNCHANGED <<clock, timeToDetect, startTime, color, colorFound, sum, numValues,
                   bodyRan, dcResult, colorRest>>

\* Line 975: Sleep(0.1).
DcSleep ==
    /\ dcPc = "dc_sleep"
    /\ dcPc' = "dc_test"
    /\ clock' = IF clock < MaxClock THEN clock + 1 ELSE clock
    /\ UNCHANGED <<timeToDetect, startTime, color, colorFound, sum, numValues, bodyRan,
                   dcResult, colorRest>>

\* Line 978: return color.
DcReturn ==
    /\ dcPc = "dc_ret"
    /\ dcPc' = "done"
    /\ dcResult' = color
    /\ UNCHANGED <<clock, timeToDetect, startTime, color, colorFound, sum, numValues,
                   bodyRan, colorRest>>

\* Time passes while the routine runs.
ClockTick ==
    /\ dcPc \notin {"idle", "done"}
    /\ clock < MaxClock
    /\ clock' = clock + 1
    /\ UNCHANGED <<dcPc, timeToDetect, startTime, color, colorFound, sum, numValues,
                   bodyRan, dcResult, colorRest>>

\* The next statement of detect_color.
DcStep ==
    \/ DcTest
    \/ \E v \in ColorReadings : DcSum(v)
    \/ \E v \in ColorReadings : DcFirst(v)
    \/ \E v \in ColorReadings : DcSecond(v)
    \/ \E v \in ColorReadings : DcShow(v)
    \/ DcSleep
    \/ DcReturn

InitColor ==
    /\ InitProgram
    /\ mainPc = "course"
    /\ lightOn = 1
    /\ lightRet = 1
    /\ cdsLow = TRUE
    /\ plant = 0
    /\ position = 0
    /\ clock \in StartClocks

NextColor ==
    \/ \E t \in DetectTimes : CallDetectColor(t)
    \/ DcTest
    \/ \E v \in ColorReadings : DcSum(v)
    \/ \E v \in ColorReadings : DcFirst(v)
    \/ \E v \in ColorReadings : DcSecond(v)
    \/ \E v \in ColorReadings : DcShow(v)
    \/ DcSleep
    \/ DcReturn
    \/ ClockTick

SpecColor == InitColor /\ [][NextColor]_vars /\ WF_vars(DcStep)

(***************************************************************************)
(* SpecColorOld: detectColor of the older snapshot (src/unnamed/part_000,  *)
(* lines 189-238), with the same readings and the same clock.              *)
(***************************************************************************)
OldDetectSeconds == 4

OldCheckSeconds == 1

RedLevel == 300

BlueLevel == 620

LevelBand == 10

\* Line 207: (startTime - TimeNow() < 4) || !colorFound.
OldDetectContinues(st, now, f) == st - now < OldDetectSeconds * TicksPerSecond \/ f = 0

\* Lines 221-227: the colour the average stands for (-1: neither).
OldColorOf(total, n) ==
    IF Abs(total - RedLevel * n) < LevelBand * n THEN 0
    ELSE IF Abs(total - BlueLevel * n) < LevelBand * n THEN 1
    ELSE -1

\* Lines 189-204: entry of detectColor.
CallDetectColorOld ==
    /\ dcPc = "idle"
    /\ dcPc' = "oc_test"
    /\ startTime' = clock
    /\ color' = -1
    /\ colorFound' = 0
    /\ sum' = 0
    /\ numValues' = 0
    /\ bodyRan' = FALSE
    /\ UNCHANGED <<clock, timeToDetect, dcResult, colorRest>>

\* Line 207: the loop test; lines 232-237 when it fails: the average is shown and color returned.
OcTest ==
    /\ dcPc = "oc_test"
    /\ dcPc' = IF OldDetectContinues(startTime, clock, colorFound) THEN "oc_show" ELSE "done"
    /\ dcResult' = IF OldDetectContinues(startTime, clock, colorFound) THEN dcResult ELSE color
    /\ UNCHANGED <<clock, timeToDetect, startTime, color, colorFound, sum, numValues,
                   bodyRan, colorRest>>

\* Lines 208-211: the CdS value is read and shown.
OcShow(v) ==
    /\ dcPc = "oc_show"
    /\ dcPc' = "oc_sum"
    /\ bodyRan' = TRUE
    /\ UNCHANGED <<clock, timeToDetect, startTime, color, colorFound, sum, numValues,
                   dcResult, colorRest>>

\* Lines 213-217: the reading is added to the average.
OcSum(v) ==
    /\ dcPc = "oc_sum"
    /\ dcPc' = "oc_check"
    /\ sum' = IF numValues < MaxValues THEN sum + v ELSE sum
    /\ numValues' = IF numValues < MaxValues THEN numValues + 1 ELSE numValues
    /\ UNCHANGED <<clock, timeToDetect, startTime, color, colorFound, bodyRan, dcResult,
                   colorRest>>

\* Lines 220-228: after a second of checking the average decides the colour.
OcCheck ==
    /\ dcPc = "oc_check"
    /\ dcPc' = "oc_test"
    /\ IF startTime - clock > OldCheckSeconds * TicksPerSecond /\ OldColorOf(sum, numValues) # -1
       THEN /\ color' = OldColorOf(sum, numValues)
            /\ colorFound' = 1
       ELSE UNCHANGED <<color, colorFound>>
    /\ UNCHANGED <<clock, timeToDetect, startTime, sum, numValues, bodyRan, dcResult,
                   colorRest>>

\* The next statement of detectColor.
OcStep ==
    \/ OcTest
    \/ \E v \in ColorReadings : OcShow(v)
    \/ \E v \in ColorReadings : OcSum(v)
    \/ OcCheck

NextColorOld ==
    \/ CallDetectColorOld
    \/ OcTest
    \/ \E v \in ColorReadings : OcShow(v)
    \/ \E v \in ColorReadings : OcSum(v)
    \/ OcCheck
    \/ ClockTick

SpecColorOld == InitColor /\ [][NextColorOld]_vars /\ WF_vars(OcStep)

(***************************************************************************)
(* SpecTouch: yesOrNo of the older snapshot (src/unnamed/part_000, lines   *)
(* 247-277) called by main (line 344).  The user touches and releases the  *)
(* screen at any time; LCD.Touch reports the touch there is at the poll.   *)
(***************************************************************************)
ScreenMiddle == 160

TouchXs == {0, 159, 160, 161, 319}

touchRest == <<nonUi, colorVars, menuVars>>

\* Lines 268-272: the answer a touch at x stands for, a being the answer so far.
AnswerOf(x, a) == IF x < ScreenMiddle THEN 0 ELSE IF x > ScreenMiddle THEN 1 ELSE a

\* Lines 247-262 and 344: main calls yesOrNo, which draws the question.
CallYesOrNo ==
    /\ ynPc = "idle"
    /\ ynPc' = "yn_poll"
    /\ answer' = -1
    /\ xCoord' = -1
    /\ UNCHANGED <<touching, touchX, courseNumber, touchRest>>

\* Line 265: while (!LCD.Touch(&xCoord, &yCoord)).
YnPoll ==
    /\ ynPc = "yn_poll"
    /\ ynPc' = IF touching THEN "yn_ret" ELSE "yn_clear"
    /\ xCoord' = IF touching THEN touchX ELSE xCoord
    /\ UNCHANGED <<answer, touching, touchX, courseNumber, touchRest>>

\* Lines 266-273: LCD.ClearBuffer(), the second poll and the answer.
YnInner ==
    /\ ynPc = "yn_clear"
    /\ ynPc' = "yn_poll"
    /\ xCoord' = IF touching THEN touchX ELSE xCoord
    /\ answer' = IF touching THEN AnswerOf(touchX, answer) ELSE answer
    /\ UNCHANGED <<touching, touchX, courseNumber, touchRest>>

\* Lines 276 and 344: return answer; main stores it in courseNumber.
YnReturn ==
    /\ ynPc = "yn_ret"
    /\ ynPc' = "done"
    /\ courseNumber' = answer
    /\ UNCHANGED <<answer, xCoord, touching, touchX, touchRest>>

\* The user puts a finger on the screen.
Press(x) ==
    /\ ~touching
    /\ touching' = TRUE
    /\ touchX' = x
    /\ UNCHANGED <<ynPc, answer, xCoord, courseNumber, touchRest>>

\* The user lifts the finger.
Release ==
    /\ touching
    /\ touching' = FALSE
    /\ UNCHANGED <<ynPc, answer, xCoord, touchX, courseNumber, touchRest>>

InitTouch ==
    /\ InitProgram
    /\ plant = 0
    /\ position = 0
    /\ mainPc = "start"
    /\ lightOn = 0
    /\ lightRet = -1
    /\ cdsLow = FALSE
    /\ clock = 0

NextTouch ==
    \/ CallYesOrNo
    \/ YnPoll
    \/ YnInner
    \/ YnReturn
    \/ \E x \in TouchXs : Press(x)
    \/ Release

SpecTouch == InitTouch /\ [][NextTouch]_vars

(***************************************************************************)
(* SpecMenu: start_menu (lines 218-473) with confirmation (lines 123-183). *)
(* Every poll of the touch screen may find no touch, a touch outside the   *)
(* buttons of the screen, or a touch on one of them.                       *)
(***************************************************************************)
TEST_COURSE_1 == 1

CALIBRATE_SERVOS == 4

PERF_COURSE_1 == 5

IND_COMP == 9

FINAL_COMP == 10

Courses == TEST_COURSE_1..FINAL_COMP

SubMenus == {"TEST_MENU", "PERFORMANCE_MENU", "COMPETITION_MENU"}

\* A poll: -1 no touch, 0 a touch outside the buttons, k a touch on button k of the screen.
Touches == -1..4

\* Values an unassigned int may hold: 1, 2, or something else (0).
Unassigned == {0, 1, 2}

menuRest == <<nonUi, colorVars, touchVars>>

\* Lines 264, 267: the loops of start_menu go on; confirmed is never assigned (line 255).
MenuContinues(c, cf) == c = 0 /\ ~cf

\* Lines 271-296: the sub-menu the button touched on the main menu leads to.
MenuOf(t, scr) ==
    IF t = 1 THEN "TEST_MENU"
    ELSE IF t = 2 THEN "PERFORMANCE_MENU"
    ELSE IF t = 3 THEN "COMPETITION_MENU"
    ELSE scr

\* Buttons drawn on a sub-menu: lines 277-278 (three tests and the servo button), 289, 301.
ButtonsOn(scr) ==
    IF scr = "COMPETITION_MENU" THEN 2 ELSE 4

\* Lines 314-327, 376-384, 433-441: selection after the poll.  The loop of line 437 also
\* tests competitions[2], which lies outside the array: oob is what that test yields.
SelectionOf(scr, t, oob) ==
    IF t = -1 THEN 0
    ELSE IF scr = "COMPETITION_MENU" /\ oob THEN 3
    ELSE IF t >= 1 /\ t <= ButtonsOn(scr) THEN t
    ELSE 0

\* The cases of the switch statements of lines 330, 387, 444.
HasCase(scr, sel) == sel >= 1 /\ sel <= ButtonsOn(scr)

\* The course named in the prompt passed to confirmation (lines 332-358, 389-416, 446-455).
PromptOf(scr, sel) ==
    IF scr = "TEST_MENU" THEN (IF sel = 4 THEN CALIBRATE_SERVOS ELSE sel)
    ELSE IF scr = "PERFORMANCE_MENU" THEN PERF_COURSE_1 + sel - 1
    ELSE IF sel = 1 THEN IND_COMP ELSE FINAL_COMP

\* A variant that takes the performance tests for the tests.
CourseOfTests(scr, sel) ==
    IF scr = "COMPETITION_MENU" THEN (IF sel = 1 THEN IND_COMP ELSE FINAL_COMP)
    ELSE TEST_COURSE_1 + sel - 1

\* The course assigned to courseChosen (lines 333-359, 390-417, 447-456).
CourseOf(scr, sel) ==
    IF scr = "TEST_MENU" THEN
        (IF sel = 4 THEN CALIBRATE_SERVOS ELSE TEST_COURSE_1 + sel - 1)
    ELSE IF scr = "PERFORMANCE_MENU" THEN PERF_COURSE_1 + sel - 1
    ELSE IF sel = 1 THEN IND_COMP ELSE FINAL_COMP

\* Lines 172-179: the switch of confirmation; YES = 1, NO = 0, otherwise decision is kept.
DecisionOf(sel, dec) == IF sel = 1 THEN 1 ELSE IF sel = 2 THEN 0 ELSE dec

\* Lines 218-261: entry of start_menu; the main menu is drawn.
CallStartMenu ==
    /\ smPc = "idle"
    /\ smPc' = "sm_loop"
    /\ courseChosen' = 0
    /\ screen' = "MAIN_MENU"
    /\ UNCHANGED <<selection, asked, cfSelection, decision, smResult, lastYes, afterNo,
                   seenAfterNo, menuRest>>

\* Lines 267-308: one pass of the main-menu loop.
SmMain(t) ==
    /\ smPc = "sm_loop"
    /\ MenuContinues(courseChosen, FALSE)
    /\ screen = "MAIN_MENU"
    /\ t <= 3
    /\ screen' = MenuOf(t, screen)
    /\ seenAfterNo' = IF afterNo /\ MenuOf(t, screen) \in SubMenus
                      THEN seenAfterNo \cup {MenuOf(t, screen)}
                      ELSE seenAfterNo
    /\ UNCHANGED <<smPc, courseChosen, selection, asked, cfSelection, decision, smResult,
                   lastYes, afterNo, menuRest>>

\* Lines 311-330, 373-387, 430-444: one pass of a sub-menu loop up to the switch.
SmSub(t, oob) ==
    /\ smPc = "sm_loop"
    /\ MenuContinues(courseChosen, FALSE)
    /\ screen \in SubMenus
    /\ t <= ButtonsOn(screen)
    /\ selection' = SelectionOf(screen, t, oob)
    /\ smPc' = IF HasCase(screen, SelectionOf(screen, t, oob)) THEN "cf_entry" ELSE "sm_loop"
    /\ asked' = IF HasCase(screen, SelectionOf(screen, t, oob))
                THEN PromptOf(screen, SelectionOf(screen, t, oob))
                ELSE asked
    /\ UNCHANGED <<screen, courseChosen, cfSelection, decision, smResult, lastYes, afterNo,
                   seenAfterNo, menuRest>>

\* Lines 123-157: entry of confirmation; selection is declared without a value.
CfEntry(g) ==
    /\ smPc = "cf_entry"
    /\ smPc' = "cf_loop"
    /\ cfSelection' = g
    /\ decision' = -1
    /\ UNCHANGED <<screen, courseChosen, selection, asked, smResult, lastYes, afterNo,
                   seenAfterNo, menuRest>>

\* Lines 160-180: one pass of the loop of confirmation.
CfPoll(t) ==
    /\ smPc = "cf_loop"
    /\ t <= 2
    /\ cfSelection' = IF t >= 1 THEN t ELSE cfSelection
    /\ decision' = DecisionOf(IF t >= 1 THEN t ELSE cfSelection, decision)
    /\ smPc' = IF DecisionOf(IF t >= 1 THEN t ELSE cfSelection, decision) = -1
               THEN "cf_loop" ELSE "cf_ret"
    /\ UNCHANGED <<screen, courseChosen, selection, asked, smResult, lastYes, afterNo,
                   seenAfterNo, menuRest>>

\* Lines 182 and 332-337 (and the like): confirmation returns; the course is chosen, or
\* the main menu is drawn again.
CfReturn ==
    /\ smPc = "cf_ret"
    /\ smPc' = "sm_loop"
    /\ courseChosen' = IF decision # 0 THEN CourseOf(screen, selection) ELSE courseChosen
    /\ screen' = IF decision # 0 THEN screen ELSE "MAIN_MENU"
    /\ lastYes' = IF decision # 0 THEN asked ELSE lastYes
    /\ afterNo' = (decision = 0)
    /\ UNCHANGED <<selection, asked, cfSelection, decision, smResult, seenAfterNo, menuRest>>

\* Lines 264 and 471: the loops are left and courseChosen is returned.
SmReturn ==
    /\ smPc = "sm_loop"
    /\ ~MenuContinues(courseChosen, FALSE)
    /\ smPc' = "done"
    /\ smResult' = courseChosen
    /\ UNCHANGED <<screen, courseChosen, selection, asked, cfSelection, decision, lastYes,
                   afterNo, seenAfterNo, menuRest>>

InitMenu ==
    /\ InitProgram
    /\ plant = 0
    /\ position = 0
    /\ mainPc = "start"
    /\ lightOn = 0
    /\ lightRet = -1
    /\ cdsLow = FALSE
    /\ clock = 0

NextMenu ==
    \/ CallStartMenu
    \/ \E t \in Touches : SmMain(t)
    \/ \E t \in Touches, oob \in BOOLEAN : SmSub(t, oob)
    \/ \E g \in Unassigned : CfEntry(g)
    \/ \E t \in Touches : CfPoll(t)
    \/ CfReturn
    \/ SmReturn

SpecMenu == InitMenu /\ [][NextMenu]_vars

(***************************************************************************)
(* SpecPair: a dead-reckoning routine of main.cpp, then the routine of the *)
(* same name of the older snapshot (src/unnamed/part_000, lines 80-180)    *)
(* with the same arguments, each on encoders that count while the motors   *)
(* run.  newSeq and oldSeq record what each of them sends to the encoders  *)
(* and the motors.                                                         *)
(***************************************************************************)
OLD_ROBOT_WIDTH == 650         \* part_000 line 22, hundredths of an inch

PairRoutines == {"forward", "right", "left"}

pairRest == <<tripVars, stepVars, mainVars, uiVars>>

\* part_000 line 83: COUNT_PER_INCH * inches.
OldExpectedForwardCounts(inches) == (COUNT_PER_INCH * inches) \div 10

\* part_000 lines 109 and 149: COUNT_PER_INCH * ((degrees * PI) / 180.0) * (ROBOT_WIDTH / 2).
OldExpectedTurnCounts(degrees) ==
    LET arc == (degrees * PI * OLD_ROBOT_WIDTH) \div 3600000
    IN  (COUNT_PER_INCH * arc) \div 1000

\* part_000 lines 90-91, 120-121, 160-161: the command, as <<right_motor, left_motor>>.
OldMoveCommand(mv, pct) ==
    CASE mv = "forward" -> <<pct, pct>>
      [] mv = "right" -> <<-pct, pct>>
      [] OTHER -> <<pct, -pct>>

\* part_000 lines 94, 124, 164: (left + right) / 2. < expectedCounts.
OldPollContinues(l, r, e) == (l + r) * 500 < e

\* The routine of main.cpp is called.
PairNew(mv, p, a) ==
    /\ pairStage = 0
    /\ \/ mv = "forward" /\ CallMoveForwardInches(p, a)
       \/ mv = "right" /\ CallTurnRightDegrees(p, a)
       \/ mv = "left" /\ CallTurnLeftDegrees(p, a)
    /\ pairStage' = 1
    /\ pairArgs' = <<mv, p, a>>
    /\ UNCHANGED <<newSeq, oldSeq, pairRest>>

PairNewReset ==
    /\ MvReset
    /\ newSeq' = Append(newSeq, <<"reset">>)
    /\ UNCHANGED <<pairStage, pairArgs, oldSeq, pairRest>>

PairNewSet ==
    /\ MvSet
    /\ newSeq' = Append(newSeq, <<"set", right_motor', left_motor'>>)
    /\ UNCHANGED <<pairStage, pairArgs, oldSeq, pairRest>>

PairNewStop ==
    /\ MvStop
    /\ newSeq' = Append(newSeq, <<"stop">>)
    /\ UNCHANGED <<pairStage, pairArgs, oldSeq, pairRest>>

PairNewShow ==
    /\ pairStage = 1
    /\ MvShow
    /\ pairStage' = 2
    /\ UNCHANGED <<pairArgs, newSeq, oldSeq, pairRest>>

\* part_000 lines 80-83, 107-113, 147-153: the routine of the older snapshot is called.
PairOld ==
    /\ pairStage = 2
    /\ pc = "idle"
    /\ pc' = "old_reset"
    /\ move' = pairArgs[1]
    /\ percent' = pairArgs[2]
    /\ expectedCounts' = IF pairArgs[1] = "forward"
                         THEN OldExpectedForwardCounts(pairArgs[3])
                         ELSE OldExpectedTurnCounts(pairArgs[3])
    /\ pairStage' = 3
    /\ UNCHANGED <<left_encoder, right_encoder, polled, right_motor, left_motor,
                   requested, average2, mtrace, correctionVars, pairArgs, newSeq, oldSeq,
                   pairRest>>

\* part_000 lines 86-87, 116-117, 156-157: both encoders reset.
OldReset ==
    /\ pc = "old_reset"
    /\ pc' = "old_set"
    /\ right_encoder' = 0
    /\ left_encoder' = 0
    /\ oldSeq' = Append(oldSeq, <<"reset">>)
    /\ UNCHANGED <<move, percent, expectedCounts, polled, right_motor, left_motor,
                   requested, average2, mtrace, correctionVars, pairStage, pairArgs, newSeq,
                   pairRest>>

\* part_000 lines 90-91, 120-121, 160-161: both motors set.
OldSet ==
    /\ pc = "old_set"
    /\ pc' = "old_poll"
    /\ right_motor' = OldMoveCommand(move, percent)[1]
    /\ left_motor' = OldMoveCommand(move, percent)[2]
    /\ oldSeq' = Append(oldSeq, <<"set", OldMoveCommand(move, percent)[1],
                                  OldMoveCommand(move, percent)[2]>>)
    /\ UNCHANGED <<move, percent, expectedCounts, left_encoder, right_encoder, polled,
                   requested, average2, mtrace, correctionVars, pairStage, pairArgs, newSeq,
                   pairRest>>

\* part_000 lines 94, 124, 164: the first of the two Counts() reads of the loop test.
OldPollFirst(side) ==
    /\ pc = "old_poll"
    /\ pc' = "old_poll2"
    /\ polled' = <<side, IF side = "left" THEN left_encoder ELSE right_encoder>>
    /\ UNCHANGED <<move, percent, expectedCounts, left_encoder, right_encoder, right_motor,
                   left_motor, requested, average2, mtrace, correctionVars, pairVars,
                   pairRest>>

\* part_000 lines 94, 124, 164: the second read and the test.
OldPollSecond ==
    /\ pc = "old_poll2"
    /\ LET other == IF polled[1] = "left" THEN right_encoder ELSE left_encoder
       IN  pc' = IF OldPollContinues(polled[2], other, expectedCounts)
                 THEN "old_poll" ELSE "old_stop"
    /\ polled' = <<>>
    /\ UNCHANGED <<move, percent, expectedCounts, left_encoder, right_encoder, right_motor,
                   left_motor, requested, average2, mtrace, correctionVars, pairVars,
                   pairRest>>

\* part_000 lines 97-98, 127-128, 167-168: both motors stopped.
OldStop ==
    /\ pc = "old_stop"
    /\ pc' = "old_show"
    /\ right_motor' = 0
    /\ left_motor' = 0
    /\ oldSeq' = Append(oldSeq, <<"stop">>)
    /\ UNCHANGED <<move, percent, expectedCounts, left_encoder, right_encoder, polled,
                   requested, average2, mtrace, correctionVars, pairStage, pairArgs, newSeq,
                   pairRest>>

\* part_000 lines 99, 130-139, 170-180: the turns display their data; the routine returns.
OldShow ==
    /\ pc = "old_show"
    /\ pc' = "idle"
    /\ move' = ""
    /\ percent' = 0
    /\ expectedCounts' = 0
    /\ pairStage' = 4
    /\ UNCHANGED <<left_encoder, right_encoder, polled, right_motor, left_motor,
                   requested, average2, mtrace, correctionVars, pairArgs, newSeq, oldSeq,
                   pairRest>>

NextPair ==
    \/ \E mv \in PairRoutines, p \in MovePercents :
           \E a \in (IF mv = "forward" THEN MoveInches ELSE MoveDegrees) : PairNew(mv, p, a)
    \/ PairNewReset
    \/ PairNewSet
    \/ \E side \in {"left", "right"} : MvPollFirst(side) /\ UNCHANGED auxVars
    \/ MvPollSecond /\ UNCHANGED auxVars
    \/ PairNewStop
    \/ PairNewShow
    \/ PairOld
    \/ OldReset
    \/ OldSet
    \/ \E side \in {"left", "right"} : OldPollFirst(side)
    \/ OldPollSecond
    \/ OldStop
    \/ OldShow
    \/ \E side \in {"left", "right"} : EncoderTick(side) /\ UNCHANGED auxVars

SpecPair == Init /\ [][NextPair]_vars

(***************************************************************************)
(* Positions inside the routines.                                          *)
(***************************************************************************)
ChPcs == {"ch_entry", "ch_guard", "ch_dir", "ch_set", "ch_sleep", "ch_stop",
          "ch_settle", "ch_recompute", "ch_show", "ch_ret"}

AxPcs == {"ax_entry", "ax_power", "ax_guard", "ax_branch", "ax_sleep", "ax_stop",
          "ax_settle", "ax_show", "ax_ret"}

MotorsStopped == right_motor = 0 /\ left_motor = 0

(***************************************************************************)
(* C1.  With the oracle returning the same heading h on every read of one  *)
(* computation, the difference computed before the loop and the one        *)
(* recomputed inside it both equal min(|t-h|, 360-|t-h|) and lie in        *)
(* [0,180].  (Under SpecPlant every read returns the physical heading,     *)
(* which changes only while a pulse runs.)                                 *)
(***************************************************************************)
C1_ShortestDifference ==
    pc \in {"ch_guard", "ch_dir", "ch_set", "ch_sleep", "ch_show", "ch_ret"} =>
        /\ difference = ArcDistance(heading, plant)
        /\ difference >= 0
        /\ difference <= HalfTurn

\* The in-loop recomputation across the 0/360 wrap.
C1_Witness ==
    /\ pc = "ch_show"
    /\ Abs(heading - plant) > HalfTurn
    /\ difference > 0

(***************************************************************************)
(* C2.  As claimed: with a difference above the threshold the direction is *)
(* counter-clockwise (1) exactly when (t-h) mod 360 is in (0,180) and      *)
(* clockwise (-1) exactly when it is in (180,360).                         *)
(***************************************************************************)
ForwardArc(t, h) == (t - h) % FullTurn

C3_NoCommandWithoutOracle ==
    (pc \in ChPcs /\ pc # "ch_entry" /\ allNeg) =>
        /\ pc \in {"ch_guard", "ch_ret"}
        /\ nSet = 0
        /\ MotorsStopped

\* Returned although the computed difference is far above the threshold.
C3_Witness ==
    /\ pc = "ch_ret"
    /\ allNeg
    /\ heading = HalfTurn
    /\ difference > RPS_TURN_THRESHOLD

(***************************************************************************)
(* C4.  A call that starts with the heading within the threshold of the    *)
(* target (the threshold itself and pairs across the 0/360 wrap included)  *)
(* is CONVERGED at its first check: it never enters the loop body and      *)
(* returns with no pulse issued.                                           *)
(***************************************************************************)
C4_ConvergedAtFirstCheck ==
    (pc \in ChPcs /\ nSet = 0 /\ ArcDistance(heading, plant) <= RPS_TURN_THRESHOLD) =>
        /\ pc \in {"ch_entry", "ch_guard", "ch_ret"}
        /\ MotorsStopped
        /\ pc = "ch_ret" => ended = "converged"

\* Exactly at the threshold, across the wrap.
C4_Witness ==
    /\ pc = "ch_ret"
    /\ nSet = 0
    /\ ArcDistance(heading, plant) = RPS_TURN_THRESHOLD
    /\ Abs(heading - plant) > HalfTurn

(***************************************************************************)
(* C5.  RPS_correct_heading returns only when its latest loop check read a *)
(* negative heading (ABORTED) or found the latest difference within the    *)
(* threshold (CONVERGED), and the loop body, where the pulses are issued,  *)
(* runs only after a check that read a valid heading and found the         *)
(* difference above the threshold.                                         *)
(***************************************************************************)
C5_ReturnsOnlyWhenTerminal ==
    /\ pc = "ch_ret" =>
        /\ (sample < 0) \/ (difference <= RPS_TURN_THRESHOLD)
        /\ ended = (IF sample < 0 THEN "loss" ELSE "converged")
    /\ pc \in {"ch_dir", "ch_set", "ch_sleep", "ch_stop", "ch_settle", "ch_recompute"} =>
        /\ sample >= 0
        /\ difference > RPS_TURN_THRESHOLD

\* Aborted in the middle of the loop, the difference still above the threshold.
C5_Witness ==
    /\ pc = "ch_ret"
    /\ nSet > 0
    /\ sample < 0
    /\ difference > RPS_TURN_THRESHOLD

(***************************************************************************)
(* C6.  In every iteration of the heading loop the events are, in this     *)
(* order: motors set, pulse sleep, motors stopped, settling delay, oracle  *)
(* re-sampled and difference recomputed.  The motors run only between the  *)
(* set and the stop, and a new iteration (and so a new pulse) starts only  *)
(* after all five.                                                         *)
(***************************************************************************)
CycleEvents == <<"set", "sleep", "stop", "settle", "resample">>

C6_CycleState ==
    /\ Len(trace) <= Len(CycleEvents)
    /\ \A i \in 1..Len(trace) : trace[i] = CycleEvents[i]
    /\ pc = "ch_show" => trace = CycleEvents
    /\ (pc \in ChPcs /\ ~MotorsStopped) => trace \in {<<"set">>, <<"set", "sleep">>}

C6_CycleStep ==
    trace' # trace =>
        \/ Len(trace) < Len(CycleEvents)
           /\ trace' = Append(trace, CycleEvents[Len(trace) + 1])
        \/ trace = CycleEvents /\ trace' = <<>>

C6_PulseCycleOrder == [](C6_CycleState) /\ [][C6_CycleStep]_vars

\* A second iteration has run through all five events.
C6_Witness ==
    /\ pc = "ch_show"
    /\ trace = CycleEvents
    /\ nSet = 2

(***************************************************************************)
(* C7.  Inside RPS_correct_heading the motors are either stopped or carry  *)
(* the differential pulse with the backward offset: counter-clockwise      *)
(* right = +pulse_power, left = -pulse_power - offset, which is what       *)
(* turn_left_degrees commands for percent = pulse_power; clockwise         *)
(* right = -pulse_power - offset, left = +pulse_power, which is what       *)
(* turn_right_degrees commands.                                            *)
(***************************************************************************)
C7_DifferentialPulse ==
    pc \in ChPcs =>
        \/ MotorsStopped
        \/ /\ direction = 1
           /\ right_motor = RPS_TURN_PULSE_PERCENT
           /\ left_motor = -RPS_TURN_PULSE_PERCENT - BACKWARDS_CALIBRATOR
           /\ <<right_motor, left_motor>> = TurnLeftCommand(RPS_TURN_PULSE_PERCENT)
        \/ /\ direction = -1
           /\ right_motor = -RPS_TURN_PULSE_PERCENT - BACKWARDS_CALIBRATOR
           /\ left_motor = RPS_TURN_PULSE_PERCENT
           /\ <<right_motor, left_motor>> = TurnRightCommand(RPS_TURN_PULSE_PERCENT)

\* A clockwise pulse is running.
C7_Witness ==
    /\ pc = "ch_stop"
    /\ direction = -1
    /\ right_motor < 0
    /\ left_motor > 0

(***************************************************************************)
(* C8.  As claimed: at the end of an iteration of a correction loop every  *)
(* oracle read of that iteration (the loop condition, the direction or     *)
(* sign choice, the recomputed error) returned one and the same sample.    *)
(***************************************************************************)
C8_OneSamplePerIteration ==
    pc \in {"ch_show", "ax_sleep", "ax_settle"} => same

(***************************************************************************)
(* C9.  As claimed: a correction call that ends because the reading it     *)
(* polls is negative has written a status message by the time it returns.  *)
(***************************************************************************)
C9_LossReported ==
    (((pc = "ch_ret" /\ caller = "main") \/ pc = "ax_ret") /\ ended = "loss") =>
        status # ""

(***************************************************************************)
(* C10.  RPS_check_x and RPS_check_y called while the oracle heading is    *)
(* negative write the error status and return: no motor command, no        *)
(* heading correction, no translational loop.                              *)
(***************************************************************************)
C10_InvalidOrientationReported ==
    (/\ (pc \in AxPcs \ {"ax_entry"}) \/ (pc \in ChPcs /\ caller # "main")
     /\ orientation < 0) =>
        /\ pc = "ax_ret"
        /\ status = "ERROR. RPS NOT READING."
        /\ ended = "loss"
        /\ nSet = 0
        /\ nCorrect = 0
        /\ MotorsStopped

\* RPS_check_y has returned after an invalid orientation.
C10_Witness ==
    /\ pc = "ax_ret"
    /\ axis = "y"
    /\ orientation < 0

(***************************************************************************)
(* C11  For every valid initial heading h, RPS_check_x snaps to heading 0  *)
(* when h <= 90 or h >= 270 and to 180 otherwise, and RPS_check_y snaps to *)
(* 90 when 0 <= h <= 180 and to 270 otherwise; the bin is fixed by the     *)
(* single initial heading sample and does not change during the call,      *)
(* whatever the robot's heading becomes.                                   *)
(***************************************************************************)
InCheckCall == pc \in (ChPcs \cup AxPcs) \ {"ax_entry"} /\ nCorrect = 1

CanonicalHeading ==
    IF bin = "EAST" THEN 0
    ELSE IF bin = "WEST" THEN 1800
    ELSE IF bin = "NORTH" THEN 900
    ELSE 2700

C11_BinState ==
    InCheckCall =>
        /\ orientation >= 0
        /\ (axis = "x") =>
              bin = IF orientation <= 900 \/ orientation >= 2700 THEN "EAST" ELSE "WEST"
        /\ (axis = "y") =>
              bin = IF 0 <= orientation /\ orientation <= 1800 THEN "NORTH" ELSE "SOUTH"
        /\ (pc \in ChPcs) => (caller = axis /\ heading = CanonicalHeading)
        /\ (snapDone # -1) => (snapDone = CanonicalHeading)

C11_BinStep ==
    (InCheckCall /\ pc' # "idle") =>
        (bin' = bin /\ orientation' = orientation /\ axis' = axis)

C11_BinFixedBySample == [](C11_BinState) /\ [][C11_BinStep]_vars

\* RPS_check_x sampled exactly 90, chose the east bin, and the robot has
\* since been turned to heading 0.
C11_Witness ==
    /\ pc = "ax_guard"
    /\ axis = "x"
    /\ orientation = 900
    /\ bin = "EAST"
    /\ snapDone = 0
    /\ plant # orientation

(***************************************************************************)
(* C12  In RPS_check_x and RPS_check_y no translational pulse is issued    *)
(* before RPS_correct_heading has been invoked with the canonical heading  *)
(* of the chosen bin and has returned.                                     *)
(***************************************************************************)
C12_HeadingBeforeTranslation ==
    /\ (nAx > 0 \/ pc \in {"ax_sleep", "ax_stop"}) =>
           (nCorrect = 1 /\ snapDone = CanonicalHeading)
    /\ (pc \in ChPcs /\ caller # "main") =>
           (nAx = 0 /\ snapDone = -1 /\ heading = CanonicalHeading)

C12_Witness ==
    /\ pc = "ax_sleep"
    /\ nAx = 1
    /\ bin = "WEST"
    /\ snapDone = 1800

(***************************************************************************)
(* C13  The translational loop treats an axis reading of exactly 0 as      *)
(* available: it does not end on a reading of 0 whose distance from the    *)
(* target is above the translational threshold.                            *)
(***************************************************************************)
C13_ZeroReadingAvailable ==
    (pc = "ax_ret" /\ ended = "zero") =>
        Abs(sample - coord) <= RPS_TRANSLATIONAL_THRESHOLD

(***************************************************************************)
(* C14  Each translational pulse drives both motors the same way, toward   *)
(* the target: in the east (north) bin backward for a reading above the    *)
(* target and forward for one below, in the west (south) bin the reverse;  *)
(* on the robot of SpecAxis no pulse increases |value - target|.           *)
(***************************************************************************)
C14_PulseState ==
    (pc = "ax_sleep") =>
        /\ right_motor = left_motor
        /\ position # coord
        /\ (bin \in {"EAST", "NORTH"}) =>
              /\ (position > coord) => right_motor < 0
              /\ (position < coord) => right_motor > 0
        /\ (bin \in {"WEST", "SOUTH"}) =>
              /\ (position > coord) => right_motor > 0
              /\ (position < coord) => right_motor < 0

C14_PulseStep ==
    (pc = "ax_sleep") => Abs(position' - coord) <= Abs(position - coord)

C14_PulseTowardTarget == [](C14_PulseState) /\ [][C14_PulseStep]_vars

\* A forward pulse in the west bin has brought the robot down to the target.
C14_Witness ==
    /\ pc = "ax_stop"
    /\ bin = "WEST"
    /\ right_motor = RPS_TRANSLATIONAL_PULSE_PERCENT
    /\ left_motor = RPS_TRANSLATIONAL_PULSE_PERCENT
    /\ position = coord

(***************************************************************************)
(* C15  As stated: a check call whose target is within the translational   *)
(* threshold of the axis reading issues no motor command of any kind.      *)
(***************************************************************************)
C15_NoMotorCommandAtAll ==
    (pc = "ax_ret" /\ nCorrect = 1 /\ nAx = 0
        /\ Abs(position - coord) <= RPS_TRANSLATIONAL_THRESHOLD) => nSet = 0

(***************************************************************************)
(* C15 (amended)  A check call whose target is within the translational    *)
(* threshold of the axis reading issues no translational pulse: it leaves  *)
(* the translational loop at its first test.  The only motor commands are  *)
(* those of the heading correction made first, and there are none when the *)
(* initial heading is within the turn threshold of the bin's heading.      *)
(***************************************************************************)
C15_NoTranslationalPulse ==
    (InCheckCall /\ nAx = 0
        /\ Abs(position - coord) <= RPS_TRANSLATIONAL_THRESHOLD) =>
        /\ pc \notin {"ax_branch", "ax_sleep", "ax_stop", "ax_settle", "ax_show"}
        /\ (pc \in AxPcs) => MotorsStopped
        /\ (ArcDistance(orientation, CanonicalHeading) <= RPS_TURN_THRESHOLD) => nSet = 0

\* The call returns with the coordinate one tenth from the target, and only
\* heading pulses were issued.
C15_Witness ==
    /\ pc = "ax_ret"
    /\ ended = "converged"
    /\ nAx = 0
    /\ nSet > 0
    /\ Abs(position - coord) = RPS_TRANSLATIONAL_THRESHOLD

(***************************************************************************)
(* C16  In move_forward_inches each motor is stopped exactly once, at the  *)
(* first poll at which the averaged encoder count (left + right) / 2 is at *)
(* least expectedCounts, never while the average is below it, and no motor *)
(* command follows the stop inside the call.                               *)
(***************************************************************************)
MoveEvents == <<"reset", "set", "poll", "stop">>

PollPcs == {"mv_poll", "mv_poll2", "mv_stop"}

HasEvent(e) == \E i \in 1..Len(mtrace) : mtrace[i] = e

C16_StopAtFirstReach ==
    (move = "forward") =>
        /\ (pc \in {"mv_poll", "mv_poll2"} /\ HasEvent("poll")) =>
               average2 * 500 < expectedCounts
        /\ (pc \in PollPcs) =>
               (~HasEvent("stop") /\ right_motor = percent /\ left_motor = percent)
        /\ (pc = "mv_stop") => average2 * 500 >= expectedCounts
        /\ (pc = "mv_show") =>
               /\ mtrace = MoveEvents
               /\ MotorsStopped
               /\ average2 * 500 >= expectedCounts
        /\ HasEvent("stop") => pc = "mv_show"

\* The move ran backward, polls below the target went by, and the motors
\* were stopped at the first average of 4.5 counts, the target being 4.048.
C16_Witness ==
    /\ move = "forward"
    /\ pc = "mv_show"
    /\ percent < 0
    /\ expectedCounts = 4048
    /\ average2 = 9
    /\ MotorsStopped

(***************************************************************************)
(* C17  move_forward_inches, turn_right_degrees and turn_left_degrees      *)
(* reset both encoders to 0 before the first motor command and before the  *)
(* first poll, and move_forward_inches then commands both motors at        *)
(* exactly the given percent, negative or positive.                        *)
(***************************************************************************)
C17_ResetBeforeCommand ==
    (move \in {"forward", "right", "left"}) =>
        /\ \E n \in 0..Len(MoveEvents) : mtrace = SubSeq(MoveEvents, 1, n)
        /\ (pc = "mv_reset") => (mtrace = <<>> /\ MotorsStopped)
        /\ (pc = "mv_set") =>
               /\ mtrace = <<"reset">>
               /\ left_encoder = 0
               /\ right_encoder = 0
               /\ MotorsStopped
        /\ (pc \in PollPcs) => (HasEvent("reset") /\ HasEvent("set"))
        /\ (move = "forward" /\ pc \in PollPcs) =>
               (right_motor = requested /\ left_motor = requested)

\* A backward move_forward_inches has reset the encoders and commanded both
\* motors.
C17_Witness ==
    /\ move = "forward"
    /\ pc = "mv_poll"
    /\ mtrace = <<"reset", "set">>
    /\ requested < 0
    /\ right_motor = requested
    /\ left_motor = requested
    /\ left_encoder = 0
    /\ right_encoder = 0

(***************************************************************************)
(* C18  turn_right_degrees(p, d) commands left = +p and right = -p -       *)
(* BACKWARDS_CALIBRATOR, and turn_left_degrees(p, d) commands right = +p   *)
(* and left = -p - BACKWARDS_CALIBRATOR, for every p and d.                *)
(***************************************************************************)
C18_TurnCommands ==
    (pc \in PollPcs) =>
        /\ (move = "right") =>
               /\ left_motor = requested
               /\ right_motor = -requested - BACKWARDS_CALIBRATOR
        /\ (move = "left") =>
               /\ right_motor = requested
               /\ left_motor = -requested - BACKWARDS_CALIBRATOR

\* turn_left_degrees(20, d): right at +20, left at -22.4.
C18_Witness ==
    /\ move = "left"
    /\ pc = "mv_poll"
    /\ requested = 200
    /\ right_motor = 200
    /\ left_motor = -224

SecondsEvents == <<"set", "sleep", "stop">>

IterationBound == (RPS_TURN_THRESHOLD + step - 1) \div step

C22_WithinBound ==
    (pc \in ChPcs) =>
        /\ nIter <= IterationBound
        /\ ArcDistance(plant, heading) <= 2 * RPS_TURN_THRESHOLD

C22_BoundedConvergence ==
    /\ [](C22_WithinBound)
    /\ (pc = "ch_entry") ~> (pc = "ch_ret" /\ ended = "converged")
    /\ (pc = "ch_ret") ~> (pc = "idle" /\ MotorsStopped)

\* With steps of a tenth of a degree the call converges at its fifth pulse.
C22_Witness ==
    /\ pc = "ch_ret"
    /\ ended = "converged"
    /\ step = 1
    /\ nIter = 5
    /\ ArcDistance(plant, heading) = RPS_TURN_THRESHOLD

(***************************************************************************)
(* C23  The correction loops have no iteration cap: while the oracle stays *)
(* valid and the error stays outside the threshold, RPS_correct_heading    *)
(* and the translational loops of RPS_check_x / RPS_check_y do not return  *)
(* and issue pulse after pulse.                                            *)
(***************************************************************************)
HeadingOff == pc \in ChPcs \ {"ch_entry"} /\ ArcDistance(plant, heading) > RPS_TURN_THRESHOLD

AxisOff ==
    /\ pc \in AxPcs \ {"ax_entry", "ax_power"}
    /\ nCorrect = 1
    /\ Abs(position - coord) > RPS_TRANSLATIONAL_THRESHOLD

C23_NoReturn ==
    /\ HeadingOff => pc # "ch_ret"
    /\ AxisOff => pc # "ax_ret"

C23_PulsesForever ==
    /\ [](C23_NoReturn)
    /\ HeadingOff ~> (pc = "ch_sleep" /\ ~MotorsStopped)
    /\ AxisOff ~> (pc = "ax_sleep" /\ ~MotorsStopped)

\* The heading loop is at its test again after MaxIter pulses, the
\* difference still above the threshold.
C23_Witness ==
    /\ pc = "ch_guard"
    /\ nIter = MaxIter
    /\ difference > RPS_TURN_THRESHOLD
    /\ ArcDistance(plant, heading) > RPS_TURN_THRESHOLD

(***************************************************************************)
(* C24  In any sequence of move and correction calls that starts with the  *)
(* motors stopped, a motor is running only between the SetPercent pair and *)
(* the Stop pair of a call: every call returns with both motors stopped    *)
(* and none is running between calls.                                      *)
(***************************************************************************)
RunningPcs == {"ch_sleep", "ch_stop", "ax_sleep", "ax_stop", "mv_poll", "mv_poll2",
               "mv_stop", "fs_sleep", "fs_stop"}

C24_StoppedBetweenCalls ==
    /\ (pc \notin RunningPcs) => MotorsStopped
    /\ (pc \in {"idle", "ch_ret", "ax_ret", "mv_show", "fs_ret"}) => MotorsStopped

\* A correction call that pulsed and a move that ran both wheels have
\* returned.
C24_Witness ==
    /\ pc = "idle"
    /\ nSet = MaxCount
    /\ left_encoder > 0
    /\ right_encoder > 0
    /\ MotorsStopped

(***************************************************************************)
(* C25  In turn_right_degrees and turn_left_degrees, for a negative        *)
(* percent as for a positive one, the wheel that turns backward is         *)
(* commanded at the magnitude |percent| + BACKWARDS_CALIBRATOR and the     *)
(* wheel that turns forward at the magnitude |percent|.                    *)
(***************************************************************************)
C25_BackwardWheelCompensated ==
    (move \in {"right", "left"} /\ pc \in PollPcs) =>
        /\ (right_motor < 0) =>
               /\ Abs(right_motor) = Abs(requested) + BACKWARDS_CALIBRATOR
               /\ Abs(left_motor) = Abs(requested)
        /\ (left_motor < 0) =>
               /\ Abs(left_motor) = Abs(requested) + BACKWARDS_CALIBRATOR
               /\ Abs(right_motor) = Abs(requested)

(***************************************************************************)
(* C26  Whatever the oracle returns, also when the reading changes between *)
(* two reads of one iteration, no pulse of RPS_correct_heading or of the   *)
(* translational loops has its direction or sign decided from a negative   *)
(* reading.                                                                *)
(***************************************************************************)
C26_NoPulseFromInvalidReading ==
    (pc \in {"ch_sleep", "ch_stop", "ax_sleep", "ax_stop"}) => ~badRead

(***************************************************************************)
(* C27  For every target in [0, 360) and every sequence of heading         *)
(* readings in [0, 360), also when the reading changes between the reads   *)
(* of one computation, the difference of RPS_correct_heading is in         *)
(* [0, 180].                                                               *)
(***************************************************************************)
C27_DifferenceInRange ==
    (pc \in ChPcs) => (0 <= difference /\ difference <= HalfTurn)

(***************************************************************************)
(* C28  Whenever RPS_check_x or RPS_check_y issues a translational pulse,  *)
(* the heading correction before it ended converged, not by the loss of    *)
(* the heading reading.                                                    *)
(***************************************************************************)
C28_PulseOnlyAfterConverged ==
    (nAx > 0 \/ pc \in {"ax_sleep", "ax_stop"}) => snapEnded = "converged"

(***************************************************************************)
(* C29  As stated: with each encoder counting on while its motor is        *)
(* powered, every call of move_forward_inches, turn_right_degrees or       *)
(* turn_left_degrees eventually stops both motors and returns.             *)
(***************************************************************************)
DeadReckoning == move \in {"forward", "right", "left"}

Unpowered == move = "forward" /\ percent = 0 /\ expectedCounts > 0

C30_NoMotionBeforeLight ==
    /\ (mainPc # "course") =>
           /\ pc = "idle"
           /\ move = ""
           /\ mtrace = <<>>
           /\ MotorsStopped
           /\ lightRet = -1
    /\ (mainPc = "course") => (lightRet = 1 /\ cdsLow)
    /\ (mainPc = "light_ret") => (lightOn = 1 /\ cdsLow)
    /\ (lightOn = 1) => cdsLow
    /\ (~MotorsStopped \/ move # "") => (cdsLow /\ lightRet = 1)

\* The first move of the course is running.
C30_Witness ==
    /\ mainPc = "course"
    /\ lightRet = 1
    /\ pc = "mv_poll"
    /\ ~MotorsStopped
    /\ status = "GO!"

(***************************************************************************)
(* C31  detect_color(timeToDetect) ends once the elapsed time has reached  *)
(* timeToDetect or a colour was found, for every sequence of readings and  *)
(* clock values; it returns 0 or 1 whenever its loop body ran, and -1 only *)
(* when the loop body never ran.                                           *)
(***************************************************************************)
C31_Result ==
    /\ (dcPc = "done") =>
           /\ dcResult \in {-1, 0, 1}
           /\ bodyRan => dcResult \in {0, 1}
           /\ (dcResult = -1) => ~bodyRan
    /\ (dcPc = "dc_ret") =>
           (colorFound = 1 \/ Elapsed >= timeToDetect * TicksPerSecond)

C31_DetectColorEnds ==
    /\ []C31_Result
    /\ (dcPc = "dc_test" /\ (colorFound = 1 \/ Elapsed >= timeToDetect * TicksPerSecond))
           ~> (dcPc = "done")
    /\ (dcPc # "idle") ~> (dcPc = "done")

\* The call ran out of time with the default colour, never having found one.
C31_Witness ==
    /\ dcPc = "done"
    /\ timeToDetect = 1
    /\ bodyRan
    /\ colorFound = 0
    /\ dcResult = 0
    /\ Elapsed >= TicksPerSecond

(***************************************************************************)
(* C32  detectColor of the older snapshot reads the sensor for four        *)
(* seconds and then returns a colour: once four seconds have passed since  *)
(* its start, the call returns, for every sequence of readings and every   *)
(* increasing clock.                                                       *)
(***************************************************************************)
C32_ReturnsAfterFourSeconds ==
    (dcPc # "idle" /\ Elapsed >= OldDetectSeconds * TicksPerSecond) ~> (dcPc = "done")

(***************************************************************************)
(* C33  yesOrNo of the older snapshot returns the user's answer, 0 (Yes)   *)
(* or 1 (No), and never -1, for every timing of the touches relative to    *)
(* its two polls and for every x-coordinate of the touch.                  *)
(***************************************************************************)
C33_AnswerIsYesOrNo ==
    (ynPc = "done") => (courseNumber \in {0, 1})

(***************************************************************************)
(* C34  start_menu returns a course number only after confirmation         *)
(* returned Yes for exactly that course, and the value is one of the       *)
(* course numbers 1..10; a No answer brings the menu back to MAIN_MENU     *)
(* with no course chosen, from which every sub-menu can be entered again.  *)
(***************************************************************************)
C34_ChosenState ==
    /\ (courseChosen # 0) => (courseChosen \in Courses /\ courseChosen = lastYes)
    /\ (smPc = "done") => (smResult \in Courses /\ smResult = lastYes)
    /\ afterNo => (courseChosen = 0 /\ smPc # "done")

C34_NoStep ==
    (smPc = "cf_ret" /\ decision = 0) =>
        (screen' = "MAIN_MENU" /\ courseChosen' = 0 /\ smPc' = "sm_loop")

C34_ConfirmedCourse == []C34_ChosenState /\ [][C34_NoStep]_vars

\* A course was returned after an earlier No, every sub-menu having been entered since.
C34_Witness ==
    /\ smPc = "done"
    /\ smResult = FINAL_COMP
    /\ seenAfterNo = SubMenus

(***************************************************************************)
(* C35  For the same percent and the same inches or degrees, the           *)
(* dead-reckoning routines of the older snapshot issue the same sequence   *)
(* of encoder resets, motor command values and stops as the routines of    *)
(* the same name in main.cpp.                                              *)
(***************************************************************************)
C35_SameSequence ==
    (pairStage = 4) => (oldSeq = newSeq)

====
